---- MODULE Spec2Model ----
(***************************************************************************)
(* Verification development for the firmware-volume / firmware-file-system *)
(* parser: FirmwareVolume (fw_fs/fv.rs), File, Section and the section     *)
(* traversal iterator (fw_fs/ffs.rs), and the Brotli section extractor     *)
(* (examples/brotli.rs).  Buffers are sequences of bytes; every header     *)
(* field is decoded from the bytes, little-endian, as the code reads it.   *)
(***************************************************************************)
EXTENDS Integers, Sequences, FiniteSets, TLC

VARIABLES
  fv_data,           \* the caller's byte buffer (fv.rs: FirmwareVolume.fv_data)
  fv_addr,           \* address of fv_data[0] (only its alignment matters)
  debug_assertions,  \* build profile: overflow and alignment checks compiled in
  pc,                \* position of the driver of the operations
  fv_result,         \* result of the last FirmwareVolume::new: "Ok" | "Err" | "Panic" | "None"
  orig_result,       \* result of FirmwareVolume::new on the buffer before it was corrupted
  corruption,        \* the corruption applied to the buffer: [kind, index]
  lba,               \* argument of the last get_lba_info
  lba_result,        \* result of the last get_lba_info
  oob_byte,          \* what a read outside every buffer finds (undefined behaviour)
  file_iter,         \* FileIterator.next_ffs: NoFile or a File
  file_cur,          \* the File the last FileIterator::next returned
  file_status,       \* "idle" | "iterating" | "done" | "panic"
  attr_result,       \* result of the last fv_file_attributes: [attributes, value]
  xbufs,             \* the output buffers of the extractor, in allocation order: [bytes, live]
  extractor,         \* FfsSectionIterator.extractor: "null" | "brotli"
  sec_next,          \* FfsSectionIterator.next_section: NoSection or a Section
  sec_pending,       \* FfsSectionIterator.pending_encapsulated_sections
  sec_cur,           \* the Section the last FfsSectionIterator::next returned
  sec_log,           \* history: what each next() yielded, from where, and what it extracted
  sec_nones,         \* next() calls of the traversal that returned None
  trav,              \* concurrent traversals: the state of each caller's iterator
  sec_status         \* "idle" | "iterating" | "done" | "Panic" | "ExtractPanic" | "ExtractHang"

fvVars == <<fv_data, fv_addr, debug_assertions, pc, fv_result, orig_result, corruption,
            lba, lba_result>>
fileVars == <<oob_byte, file_iter, file_cur, file_status, attr_result>>
secVars == <<xbufs, extractor, sec_next, sec_pending, sec_cur, sec_log, sec_status,
             sec_nones, trav>>
vars == <<fvVars, fileVars, secVars>>

----------------------------------------------------------------------------
(* Byte-level decoding *)

U16Mod == 65536

\* d is a Rust slice: offset o is element o + 1 of the sequence.
ByteAt(d, o) == d[o + 1]

RECURSIVE FromLeBytes(_, _, _)
\* u16/u32/u64::from_le_bytes of the n bytes of d at offset o
FromLeBytes(d, o, n) ==
  IF n = 0 THEN 0 ELSE ByteAt(d, o) + 256 * FromLeBytes(d, o + 1, n - 1)

RECURSIVE ToLeBytes(_, _)
\* the n little-endian bytes of v (what a field store writes)
ToLeBytes(v, n) ==
  IF n = 0 THEN <<>> ELSE <<v % 256>> \o ToLeBytes(v \div 256, n - 1)

\* the buffer with the bytes at offset o replaced by bs
PutBytes(d, o, bs) ==
  [i \in 1..Len(d) |-> IF i > o /\ i <= o + Len(bs) THEN bs[i - o] ELSE d[i]]

Slice(d, from, to) == SubSeq(d, from + 1, to)

(* Fields wider than 24 bits (u32, u64) are kept as their little-endian    *)
(* bytes and compared and added byte-wise, so that every bit pattern of a  *)
(* field has its exact value.                                               *)

\* the value fits 24 bits
Small(bs) == \A i \in 4..Len(bs) : bs[i] = 0
\* the value of a field that fits 24 bits
Val(bs) == FromLeBytes(bs, 0, IF Len(bs) < 3 THEN Len(bs) ELSE 3)
\* comparisons of a field with an integer n < 2^24
LtInt(bs, n) == Small(bs) /\ Val(bs) < n
GtInt(bs, n) == ~Small(bs) \/ Val(bs) > n
GeInt(bs, n) == ~LtInt(bs, n)
LeInt(bs, n) == ~GtInt(bs, n)

RECURSIVE LessFrom(_, _, _)
LessFrom(a, b, k) ==
  IF k = 0 THEN FALSE
  ELSE IF a[k] # b[k] THEN a[k] < b[k]
  ELSE LessFrom(a, b, k - 1)
\* a < b for two fields of the same width
Less(a, b) == LessFrom(a, b, Len(a))

RECURSIVE AddFrom(_, _, _, _)
AddFrom(a, b, k, c) ==
  IF k > Len(a) THEN <<c>>
  ELSE <<(a[k] + b[k] + c) % 256>> \o AddFrom(a, b, k + 1, (a[k] + b[k] + c) \div 256)
\* a + b for two fields of the same width n: n bytes of sum, then the carry out
Add(a, b) == AddFrom(a, b, 1, 0)

RECURSIVE MulByteFrom(_, _, _, _)
MulByteFrom(a, m, k, c) ==
  IF k > Len(a) THEN <<c>>
  ELSE <<(a[k] * m + c) % 256>> \o MulByteFrom(a, m, k + 1, (a[k] * m + c) \div 256)

RECURSIVE MulFrom(_, _, _)
MulFrom(a, b, j) ==
  IF j > Len(b) THEN [i \in 1..(2 * Len(a)) |-> 0]
  ELSE LET part == [i \in 1..(j - 1) |-> 0] \o MulByteFrom(a, b[j], 1, 0)
           wide == [i \in 1..(2 * Len(a)) |-> IF i <= Len(part) THEN part[i] ELSE 0]
       IN  SubSeq(Add(wide, MulFrom(a, b, j + 1)), 1, 2 * Len(a))
\* a * b for two fields of the same width n: the 2n bytes of the product
Mul(a, b) == MulFrom(a, b, 1)

Low(bs, n) == SubSeq(bs, 1, n)
HighNonZero(bs, n) == \E i \in (n + 1)..Len(bs) : bs[i] # 0

----------------------------------------------------------------------------
(* fv.rs: EFI_FIRMWARE_VOLUME_HEADER layout *)

HeaderSize == 56          \* mem::size_of::<Header>()
HeaderAlign == 8          \* mem::align_of::<Header>() (fv_length: u64)
ExtHeaderSize == 20       \* mem::size_of::<ExtHeader>()
ExtHeaderAlign == 4       \* mem::align_of::<ExtHeader>() (ext_header_size: u32)
BlockMapEntrySize == 8    \* mem::size_of::<BlockMapEntry>()
FvhSignature == <<95, 70, 86, 72>>  \* 0x4856465f, '_FVH', little-endian

OffFileSystemGuid == 16
OffFvLength == 32
OffSignature == 40
OffAttributes == 44
OffHeaderLength == 48
OffChecksum == 50
OffExtHeaderOffset == 52
OffRevision == 55

HdrFileSystemGuid(d) == Slice(d, OffFileSystemGuid, OffFileSystemGuid + 16)
HdrFvLength(d) == Slice(d, OffFvLength, OffFvLength + 8)
HdrSignature(d) == Slice(d, OffSignature, OffSignature + 4)
HdrAttributes(d) == Slice(d, OffAttributes, OffAttributes + 4)
HdrHeaderLength(d) == FromLeBytes(d, OffHeaderLength, 2)
HdrChecksum(d) == FromLeBytes(d, OffChecksum, 2)
HdrExtHeaderOffset(d) == FromLeBytes(d, OffExtHeaderOffset, 2)
HdrRevision(d) == ByteAt(d, OffRevision)
ExtHeaderSizeField(d) ==
  Slice(d, HdrExtHeaderOffset(d) + 16, HdrExtHeaderOffset(d) + ExtHeaderSize)

\* ffs/guid.rs: EFI_FIRMWARE_FILE_SYSTEM2_GUID 8c8ce578-8a3d-4f1c-9935-896185c32dd3
EFI_FIRMWARE_FILE_SYSTEM2_GUID ==
  <<120, 229, 140, 140, 61, 138, 28, 79, 153, 53, 137, 97, 133, 195, 45, 211>>
\* ffs/guid.rs: EFI_FIRMWARE_FILE_SYSTEM3_GUID 5473c07a-3dcb-4dca-bd6f-1e9689e7349a
EFI_FIRMWARE_FILE_SYSTEM3_GUID ==
  <<122, 192, 115, 84, 203, 61, 202, 77, 189, 111, 30, 150, 137, 231, 52, 154>>

----------------------------------------------------------------------------
(* fv.rs: FirmwareVolume::new, check by check *)

\* line 98: signature must be ASCII '_FVH'
SignatureOk(d) == HdrSignature(d) = FvhSignature

\* lines 104-116: header_length holds the header, fits the buffer, and is even
HeaderLengthOk(d) ==
  /\ HdrHeaderLength(d) >= HeaderSize
  /\ HdrHeaderLength(d) <= Len(d)
  /\ HdrHeaderLength(d) % 2 = 0

RECURSIVE SumWords(_, _, _)
\* Wrapping<u16> sum of the words of d in [from, to), chunks_exact(2)
SumWords(d, from, to) ==
  IF from + 2 > to THEN 0
  ELSE (FromLeBytes(d, from, 2) + SumWords(d, from + 2, to)) % U16Mod

HeaderSumFixedOnly(d) == SumWords(d, 0, HeaderSize)
\* lines 118-120: the sum over header_slice = fv_data[..header_length]
HeaderSum(d) == SumWords(d, 0, HdrHeaderLength(d))

ChecksumNotChecked(d) == TRUE
\* lines 122-124: the header must sum to zero
ChecksumOk(d) == HeaderSum(d) = 0

\* line 128
RevisionOk(d) == HdrRevision(d) >= 2

\* lines 133-137
FileSystemGuidOk(d) ==
  \/ HdrFileSystemGuid(d) = EFI_FIRMWARE_FILE_SYSTEM2_GUID
  \/ HdrFileSystemGuid(d) = EFI_FIRMWARE_FILE_SYSTEM3_GUID

\* lines 140-147: header_length <= fv_length <= buffer length
FvLengthOk(d) ==
  /\ GeInt(HdrFvLength(d), HdrHeaderLength(d))
  /\ LeInt(HdrFvLength(d), Len(d))

\* ext_header_offset strictly below fv_length
ExtHeaderOffsetStrict(d) == GtInt(HdrFvLength(d), HdrExtHeaderOffset(d))

\* lines 150-152: ext_header_offset must be inside the fv
ExtHeaderOffsetOk(d) == GeInt(HdrFvLength(d), HdrExtHeaderOffset(d))

\* lines 157-159: the ExtHeader struct fits the buffer
ExtHeaderFits(d) == HdrExtHeaderOffset(d) + ExtHeaderSize <= Len(d)

\* lines 164-166: the declared extension size fits the buffer
\* (usize is 64 bits wide: a u16 plus a u32 does not overflow it)
ExtHeaderSizeFits(d) ==
  /\ Small(ExtHeaderSizeField(d))
  /\ HdrExtHeaderOffset(d) + Val(ExtHeaderSizeField(d)) <= Len(d)

\* lines 95, 162: `&*(ptr as *const T)` of a pointer that is not aligned for T is
\* undefined behaviour; a build with debug assertions checks the alignment and
\* panics, a build without them performs the read.
MisalignedDeref(addr, align, dbg) == dbg /\ addr % align # 0

\* lines 177-183: the block map decoded from fv_data[size_of(Header)..header_length]
BlockMapEntries(d) ==
  [k \in 1..((HdrHeaderLength(d) - HeaderSize) \div BlockMapEntrySize) |->
     [num_blocks |-> Slice(d, HeaderSize + (k - 1) * BlockMapEntrySize,
                              HeaderSize + (k - 1) * BlockMapEntrySize + 4),
      length     |-> Slice(d, HeaderSize + (k - 1) * BlockMapEntrySize + 4,
                              HeaderSize + k * BlockMapEntrySize)]]

Zero32 == <<0, 0, 0, 0>>
ZeroEntry == [num_blocks |-> Zero32, length |-> Zero32]

\* lines 170-193: size multiple of 8, last entry zero, other entries non-zero
BlockMapOk(d) ==
  LET bm == BlockMapEntries(d) IN
  /\ (HdrHeaderLength(d) - HeaderSize) % BlockMapEntrySize = 0
  /\ Len(bm) > 0
  /\ bm[Len(bm)] = ZeroEntry
  /\ \A k \in 1..(Len(bm) - 1) : bm[k] # ZeroEntry

\* lines 88-196: FirmwareVolume::new(fv_data) for a buffer at address addr
FvNew(d, addr, dbg) ==
  IF Len(d) < HeaderSize THEN "Err"
  ELSE IF MisalignedDeref(addr, HeaderAlign, dbg) THEN "Panic"
  ELSE IF ~SignatureOk(d) THEN "Err"
  ELSE IF ~HeaderLengthOk(d) THEN "Err"
  ELSE IF ~ChecksumOk(d) THEN "Err"
  ELSE IF ~RevisionOk(d) THEN "Err"
  ELSE IF ~FileSystemGuidOk(d) THEN "Err"
  ELSE IF ~FvLengthOk(d) THEN "Err"
  ELSE IF ~ExtHeaderOffsetOk(d) THEN "Err"
  ELSE IF HdrExtHeaderOffset(d) # 0 /\ ~ExtHeaderFits(d) THEN "Err"
  ELSE IF HdrExtHeaderOffset(d) # 0
          /\ MisalignedDeref(addr + HdrExtHeaderOffset(d), ExtHeaderAlign, dbg) THEN "Panic"
  ELSE IF HdrExtHeaderOffset(d) # 0 /\ ~ExtHeaderSizeFits(d) THEN "Err"
  ELSE IF ~BlockMapOk(d) THEN "Err"
  ELSE "Ok"

----------------------------------------------------------------------------
(* Input buffers: a well-formed volume image and deviations from it.  The  *)
(* image is encoded field by field in the layout of Header, BlockMapEntry  *)
(* and ExtHeader; Auto stands for the value a well-formed image carries.   *)

Auto == 0 - 1
MaxTail == 4             \* bytes of file area that follow the extension header
MaxLba == 6              \* get_lba_info is called with lba in 0..MaxLba

Rep(b, n) == [i \in 1..n |-> b]

RECURSIVE EncodeBlockMap(_)
EncodeBlockMap(bm) ==
  IF bm = <<>> THEN <<>>
  ELSE bm[1].num_blocks \o bm[1].length \o EncodeBlockMap(Tail(bm))

E(n, l) == [num_blocks |-> ToLeBytes(n, 4), length |-> ToLeBytes(l, 4)]

NotFfsGuid == Rep(165, 16)
\* FFS2 with its first two 16-bit words exchanged: same word sum, another GUID
SwappedFfs2Guid ==
  <<140, 140, 120, 229, 61, 138, 28, 79, 153, 53, 137, 97, 133, 195, 45, 211>>
SwappedSignature == <<86, 72, 95, 70>>   \* the two words of '_FVH' exchanged
FvName == <<1, 2, 3, 4, 5, 6, 7, 8, 9, 10, 11, 12, 13, 14, 15, 16>>

\* The image without its checksum: header, block map, extension header, file area.
RawImage(p) ==
  LET bmBytes == EncodeBlockMap(p.bmap)
      extBytes == IF p.ext THEN FvName \o p.extsize ELSE <<>>
      extAt   == HeaderSize + Len(bmBytes)
      total   == extAt + Len(extBytes) + Len(p.tail)
      hlen    == IF p.hlen = Auto THEN extAt ELSE p.hlen
      fvlen   == IF p.fvlen = Auto THEN total ELSE p.fvlen
      extoff  == IF p.extoff = Auto THEN extAt ELSE p.extoff
  IN  Rep(0, 16) \o p.guid \o ToLeBytes(fvlen, 8) \o p.sig
      \o ToLeBytes(p.attrs, 4) \o ToLeBytes(hlen, 2) \o <<0, 0>>
      \o ToLeBytes(extoff, 2) \o <<0, p.rev>>
      \o bmBytes \o extBytes \o p.tail

\* The image with the checksum that makes the header sum to zero, plus p.ckd.
Image(p) ==
  LET raw  == RawImage(p)
      hlen == HdrHeaderLength(raw)
      sum  == IF hlen % 2 = 0 /\ hlen <= Len(raw) THEN SumWords(raw, 0, hlen) ELSE 0
      full == PutBytes(raw, OffChecksum, ToLeBytes((U16Mod - sum + p.ckd) % U16Mod, 2))
  IN  IF p.trunc = Auto \/ p.trunc > Len(full) THEN full ELSE SubSeq(full, 1, p.trunc)

WellFormed ==
  [sig |-> FvhSignature, hlen |-> Auto, ckd |-> 0, rev |-> 2,
   guid |-> EFI_FIRMWARE_FILE_SYSTEM2_GUID, fvlen |-> Auto, extoff |-> 0,
   extsize |-> ToLeBytes(ExtHeaderSize, 4), attrs |-> 2048, bmap |-> <<E(2, 16), ZeroEntry>>,
   tail |-> Rep(255, MaxTail), trunc |-> Auto, ext |-> TRUE]

BlockMaps ==
  { <<E(2, 16), ZeroEntry>>, <<ZeroEntry>>, <<>>, <<E(2, 16)>>,
    <<ZeroEntry, E(2, 16), ZeroEntry>>,
    <<E(1, 16), E(3, 8), ZeroEntry>>,
    <<E(1, 16), E(0, 8), E(2, 32), ZeroEntry>>,
    <<E(2, 0), E(3, 16), ZeroEntry>>,
    <<E(65534, 2), ZeroEntry>>,
    \* blocks of 2^31 bytes
    <<[num_blocks |-> ToLeBytes(3, 4), length |-> <<0, 0, 0, 128>>], ZeroEntry>>,
    <<[num_blocks |-> ToLeBytes(2, 4), length |-> <<0, 0, 0, 128>>], E(8, 16), ZeroEntry>> }

\* one field of the image set to one value
Deviations ==
  UNION {
    {<<"sig", v>> : v \in {FvhSignature, Zero32, SwappedSignature}},
    {<<"hlen", v>> : v \in {Auto, 0, 56, 57, 64, 72, 80, 200}},
    {<<"ckd", v>> : v \in {0, 1}},
    {<<"rev", v>> : v \in {1, 2, 3}},
    {<<"guid", v>> : v \in {EFI_FIRMWARE_FILE_SYSTEM2_GUID, EFI_FIRMWARE_FILE_SYSTEM3_GUID,
                            NotFfsGuid, SwappedFfs2Guid}},
    {<<"fvlen", v>> : v \in {Auto, 0, 60, 72, 73, 200}},
    {<<"extoff", v>> : v \in {Auto, 0, 56, 73, 74, 76, 80, 90, 200}},
    {<<"extsize", v>> : v \in {Zero32, ToLeBytes(ExtHeaderSize, 4),
                               ToLeBytes(ExtHeaderSize + MaxTail, 4),
                               ToLeBytes(ExtHeaderSize + MaxTail + 1, 4),
                               Rep(255, 4)}},
    {<<"bmap", v>> : v \in BlockMaps},
    {<<"trunc", v>> : v \in {Auto, 0, 55, 56, 72, 91}} }

Deviate(p, dev) == [p EXCEPT ![dev[1]] = dev[2]]

\* images whose extension header lies at the end of the buffer, with fv_length
\* ending before it, at it, and at the end of the buffer
ExtHeaderAtEnd ==
  LET bmBytes == EncodeBlockMap(WellFormed.bmap)
      extAt == HeaderSize + Len(bmBytes) + MaxTail
  IN  {Image([WellFormed EXCEPT !.fvlen = f, !.extoff = extAt,
                                !.tail = Rep(255, MaxTail - 4) \o ToLeBytes(ExtHeaderSize, 4)]) :
         f \in {extAt - 4, extAt, Auto}}

\* addresses of the buffer: 8-aligned, 4- but not 8-aligned, odd
Addresses == {4096, 4100, 4097}

----------------------------------------------------------------------------
(* fv.rs: block_map and get_lba_info *)

RECURSIVE BlockMapCount(_, _)
\* lines 220-228: count entries from the header end while both fields are non-zero
BlockMapCount(bm, k) ==
  IF k <= Len(bm) /\ bm[k].num_blocks # Zero32 /\ bm[k].length # Zero32
  THEN 1 + BlockMapCount(bm, k + 1)
  ELSE 0

\* lines 216-231: FirmwareVolume::block_map of a validated volume
BlockMap(d) ==
  LET bm == BlockMapEntries(d) IN SubSeq(bm, 1, BlockMapCount(bm, 1))

\* u32 arithmetic on 4-byte fields: a build with overflow checks panics on
\* overflow, one without them wraps
AddOverflows(a, b) == Add(a, b)[5] # 0
AddWrap(a, b) == Low(Add(a, b), 4)
MulOverflows(a, b) == HighNonZero(Mul(a, b), 4)
MulWrap(a, b) == Low(Mul(a, b), 4)

LbaPanic == [panic |-> TRUE, total |-> Zero32, offset |-> Zero32, block_size |-> Zero32]

RECURSIVE LbaWalk(_, _, _, _, _, _, _)
\* lines 273-284: the loop over the block map
LbaWalk(bm, k, l, total, offset, block_size, dbg) ==
  IF k > Len(bm)
  THEN [panic |-> FALSE, total |-> total, offset |-> offset, block_size |-> block_size]
  ELSE IF dbg /\ AddOverflows(total, bm[k].num_blocks) THEN LbaPanic
  ELSE IF Less(l, AddWrap(total, bm[k].num_blocks))
  THEN [panic |-> FALSE, total |-> AddWrap(total, bm[k].num_blocks), offset |-> offset,
        block_size |-> bm[k].length]
  ELSE IF dbg /\ (\/ MulOverflows(bm[k].num_blocks, bm[k].length)
                  \/ AddOverflows(offset, MulWrap(bm[k].num_blocks, bm[k].length)))
  THEN LbaPanic
  ELSE LbaWalk(bm, k + 1, l, AddWrap(total, bm[k].num_blocks),
               AddWrap(offset, MulWrap(bm[k].num_blocks, bm[k].length)),
               bm[k].length, dbg)

NoLbaResult ==
  [status |-> "None", offset |-> Zero32, block_size |-> Zero32, remaining |-> Zero32]

RECURSIVE SubFrom(_, _, _, _)
SubFrom(a, b, k, borrow) ==
  IF k > Len(a) THEN <<>>
  ELSE <<(256 + a[k] - b[k] - borrow) % 256>>
       \o SubFrom(a, b, k + 1, IF a[k] - b[k] - borrow < 0 THEN 1 ELSE 0)
\* a - b for two fields of the same width, b <= a
Sub(a, b) == SubFrom(a, b, 1, 0)

\* lines 270-292: FirmwareVolume::get_lba_info(lba), lba as its 4 bytes
GetLbaInfoResult(d, l, dbg) ==
  LET w == LbaWalk(BlockMap(d), 1, l, Zero32, Zero32, Zero32, dbg) IN
  IF w.panic THEN [NoLbaResult EXCEPT !.status = "Panic"]
  ELSE IF ~Less(l, w.total) THEN [NoLbaResult EXCEPT !.status = "Err"]
  ELSE IF dbg /\ (\/ MulOverflows(l, w.block_size)
                  \/ AddOverflows(w.offset, MulWrap(l, w.block_size)))
  THEN [NoLbaResult EXCEPT !.status = "Panic"]
  ELSE [status |-> "Ok", offset |-> AddWrap(w.offset, MulWrap(l, w.block_size)),
        block_size |-> w.block_size, remaining |-> Sub(w.total, l)]

----------------------------------------------------------------------------
(* Volume validation and block lookup: the operations on one buffer *)

NoCorruption == [kind |-> "none", index |-> 0]
NoFile == [off |-> 0 - 1, large |-> FALSE]

\* no file iteration is under way
\* fv_file_attributes has not been called
NoAttributes == [attributes |-> 0 - 1, value |-> 0 - 1]

FileIdle ==
  /\ oob_byte = 0
  /\ file_iter = NoFile
  /\ file_cur = NoFile
  /\ file_status = "idle"
  /\ attr_result = NoAttributes

\* no Section: the None of Option<Section>
NoSection == [xbuf |-> 0 - 1, off |-> 0 - 1, ffs |-> NoFile]

\* no section traversal has been started
SecIdle ==
  /\ xbufs = <<>>
  /\ extractor = "null"
  /\ sec_next = NoSection
  /\ sec_pending = <<>>
  /\ sec_cur = NoSection
  /\ sec_log = <<>>
  /\ sec_status = "idle"
  /\ sec_nones = 0
  /\ trav = <<>>

InitFv ==
  /\ \/ \E d1 \in Deviations, d2 \in Deviations :
          fv_data = Image(Deviate(Deviate(WellFormed, d1), d2))
     \/ fv_data \in ExtHeaderAtEnd
  /\ fv_addr \in Addresses
  /\ debug_assertions \in BOOLEAN
  /\ pc = "start"
  /\ fv_result = "None"
  /\ orig_result = "None"
  /\ corruption = NoCorruption
  /\ lba = 0
  /\ lba_result = NoLbaResult
  /\ FileIdle
  /\ SecIdle

\* FirmwareVolume::new(fv_data), on the buffer as given and again after a corruption
FirmwareVolumeNew ==
  /\ pc \in {"start", "corrupted"}
  /\ fv_result' = FvNew(fv_data, fv_addr, debug_assertions)
  /\ orig_result' = IF pc = "start" THEN fv_result' ELSE orig_result
  /\ pc' = IF pc = "start" THEN "validated" ELSE "revalidated"
  /\ UNCHANGED <<fv_data, fv_addr, debug_assertions, corruption, lba, lba_result, fileVars, secVars>>

\* fv.get_lba_info(l) on the volume FirmwareVolume::new returned
GetLbaInfo ==
  /\ pc = "validated"
  /\ fv_result = "Ok"
  /\ \E l \in 0..MaxLba :
       /\ lba' = l
       /\ lba_result' = GetLbaInfoResult(fv_data, ToLeBytes(l, 4), debug_assertions)
  /\ pc' = "lba"
  /\ UNCHANGED <<fv_data, fv_addr, debug_assertions, fv_result, orig_result, corruption, fileVars, secVars>>

NextFv == FirmwareVolumeNew \/ GetLbaInfo

SpecFv == InitFv /\ [][NextFv]_vars

----------------------------------------------------------------------------
(* Single-field and single-byte corruption of an accepted buffer            *)
(* (fv.rs: test_malformed_firmware_volume)                                  *)

FieldKinds == {"signature", "header_length", "checksum", "revision",
               "file_system_guid", "fv_length", "ext_header_offset"}

\* lines 515-569: the buffers one field corruption of kind k can leave behind
Corrupted(d, k) ==
  CASE k = "signature" ->
         {PutBytes(d, OffSignature, v) : v \in {Zero32, SwappedSignature, <<95, 70, 86, 73>>}}
    [] k = "header_length" -> {PutBytes(d, OffHeaderLength, <<0, 0>>)}
    [] k = "checksum" ->
         {PutBytes(d, OffChecksum, ToLeBytes(v, 2)) :
            v \in {0, (HdrChecksum(d) + 1) % U16Mod, (HdrChecksum(d) + 48879) % U16Mod}
                  \ {HdrChecksum(d)}}
    [] k = "revision" -> {PutBytes(d, OffRevision, <<v>>) : v \in {0, 1}}
    [] k = "file_system_guid" ->
         {PutBytes(d, OffFileSystemGuid, v) :
            v \in {NotFfsGuid, Rep(0, 16), SwappedFfs2Guid}}
    [] k = "fv_length" -> {PutBytes(d, OffFvLength, Rep(0, 8))}
    [] k = "ext_header_offset" ->
         {PutBytes(d, OffFvLength, ToLeBytes(v, 8)) :
            v \in {n \in {0, 1, HdrExtHeaderOffset(d) - 1} : n < HdrExtHeaderOffset(d)}}

\* the values a changed byte takes
FlipValues(b) == {(b + 1) % 256, (b + 8) % 256, (b + 248) % 256, 255 - b}
\* every other value for the two bytes of header_length, a few for the rest
FlipValuesAt(i, b) ==
  IF i \in {OffHeaderLength, OffHeaderLength + 1} THEN (0..255) \ {b} ELSE FlipValues(b)

InitCorrupt ==
  /\ \E x \in {0, Auto}, d1 \in Deviations :
       fv_data = Image(Deviate([WellFormed EXCEPT !.extoff = x], d1))
  /\ fv_addr \in Addresses
  /\ debug_assertions \in BOOLEAN
  /\ pc = "start"
  /\ fv_result = "None"
  /\ orig_result = "None"
  /\ corruption = NoCorruption
  /\ lba = 0
  /\ lba_result = NoLbaResult
  /\ FileIdle
  /\ SecIdle

\* one header field of an accepted buffer is overwritten
CorruptField ==
  /\ pc = "validated"
  /\ fv_result = "Ok"
  /\ \E k \in FieldKinds : \E c \in Corrupted(fv_data, k) :
       /\ fv_data' = c
       /\ corruption' = [kind |-> k, index |-> 0]
  /\ pc' = "corrupted"
  /\ UNCHANGED <<fv_addr, debug_assertions, fv_result, orig_result, lba, lba_result, fileVars, secVars>>

\* one byte below header_length of an accepted buffer is changed
FlipHeaderByte ==
  /\ pc = "validated"
  /\ fv_result = "Ok"
  /\ \E i \in 0..(HdrHeaderLength(fv_data) - 1) : \E v \in FlipValuesAt(i, ByteAt(fv_data, i)) :
       /\ fv_data' = PutBytes(fv_data, i, <<v>>)
       /\ corruption' = [kind |-> "byte", index |-> i]
  /\ pc' = "corrupted"
  /\ UNCHANGED <<fv_addr, debug_assertions, fv_result, orig_result, lba, lba_result, fileVars, secVars>>

NextCorrupt == FirmwareVolumeNew \/ CorruptField \/ FlipHeaderByte

SpecCorrupt == InitCorrupt /\ [][NextCorrupt]_vars

----------------------------------------------------------------------------
(* Claims about FirmwareVolume::new and get_lba_info *)

\* What the claim C1 lists for an accepted buffer, read off the bytes.
AcceptedConditions(d) ==
  /\ Len(d) >= HeaderSize
  /\ HdrSignature(d) = FvhSignature
  /\ HeaderSize <= HdrHeaderLength(d) /\ HdrHeaderLength(d) <= Len(d)
  /\ HdrHeaderLength(d) % 2 = 0
  /\ SumWords(d, 0, HdrHeaderLength(d)) = 0
  /\ HdrRevision(d) >= 2
  /\ HdrFileSystemGuid(d) \in {EFI_FIRMWARE_FILE_SYSTEM2_GUID, EFI_FIRMWARE_FILE_SYSTEM3_GUID}
  /\ Small(HdrFvLength(d))
  /\ HdrHeaderLength(d) <= Val(HdrFvLength(d)) /\ Val(HdrFvLength(d)) <= Len(d)
  /\ HdrExtHeaderOffset(d) # 0 =>
       /\ HdrExtHeaderOffset(d) + ExtHeaderSize <= Len(d)
       /\ Small(ExtHeaderSizeField(d))
       /\ HdrExtHeaderOffset(d) + Val(ExtHeaderSizeField(d)) <= Len(d)
  /\ (HdrHeaderLength(d) - HeaderSize) % BlockMapEntrySize = 0
  /\ LET n == (HdrHeaderLength(d) - HeaderSize) \div BlockMapEntrySize IN
       /\ n >= 1
       /\ \A k \in 1..n :
            (Slice(d, HeaderSize + (k - 1) * BlockMapEntrySize,
                      HeaderSize + k * BlockMapEntrySize) = Rep(0, BlockMapEntrySize))
              <=> (k = n)

\* C1: for every byte buffer FirmwareVolume::new returns Err or Ok and never
\* panics, and a buffer it accepts satisfies every listed validation condition.
C1_NewTotalAndSound ==
  pc = "validated" =>
    /\ fv_result \in {"Ok", "Err"}
    /\ fv_result = "Ok" => AcceptedConditions(fv_data)

\* The part of C1 that the code keeps: an accepted buffer satisfies the conditions.
AcceptedIsWellFormed ==
  (pc = "validated" /\ fv_result = "Ok") => AcceptedConditions(fv_data)

CastPanics ==
  /\ debug_assertions
  /\ \/ fv_addr % HeaderAlign # 0
     \/ /\ HdrExtHeaderOffset(fv_data) # 0
        /\ (fv_addr + HdrExtHeaderOffset(fv_data)) % ExtHeaderAlign # 0

C2_FieldCorruptionRejected ==
  (pc = "revalidated" /\ orig_result = "Ok" /\ corruption.kind \in FieldKinds)
    => fv_result = "Err"

\* an accepted volume with an extension header, its fv_length then set below
\* ext_header_offset, was rejected
C2_Witness ==
  /\ pc = "revalidated" /\ orig_result = "Ok" /\ fv_result = "Err"
  /\ corruption.kind = "ext_header_offset"
  /\ HdrExtHeaderOffset(fv_data) # 0
  /\ LtInt(HdrFvLength(fv_data), HdrExtHeaderOffset(fv_data))

\* C3: changing any single byte below header_length of an accepted buffer,
\* the header_length field and the block map included, makes
\* FirmwareVolume::new fail.
C3_ByteFlipRejected ==
  (pc = "revalidated" /\ orig_result = "Ok" /\ corruption.kind = "byte")
    => fv_result = "Err"

\* a block-map byte of an accepted buffer was changed and the buffer rejected
C3_Witness ==
  /\ pc = "revalidated" /\ orig_result = "Ok" /\ fv_result = "Err"
  /\ corruption.kind = "byte"
  /\ corruption.index >= HeaderSize

\* a byte of the header_length field was changed, the new header_length still
\* fits the buffer, and the buffer was rejected
C3_WitnessHeaderLength ==
  /\ pc = "revalidated" /\ orig_result = "Ok" /\ fv_result = "Err"
  /\ corruption.kind = "byte"
  /\ corruption.index = OffHeaderLength
  /\ HeaderLengthOk(fv_data)

\* the block-map entries e1..en before the (0,0) terminator of a validated volume
EntriesBeforeTerminator(d) ==
  SubSeq(BlockMapEntries(d), 1, Len(BlockMapEntries(d)) - 1)

RECURSIVE BlocksUpTo(_, _)
\* e1.num_blocks + ... + ek.num_blocks
BlocksUpTo(es, k) == IF k = 0 THEN 0 ELSE Val(es[k].num_blocks) + BlocksUpTo(es, k - 1)

\* the index of the first entry whose cumulative block count exceeds l
FirstCovering(es, l) ==
  CHOOSE k \in 1..Len(es) :
    /\ BlocksUpTo(es, k) > l
    /\ \A j \in 1..(k - 1) : BlocksUpTo(es, j) <= l

\* C10: get_lba_info(lba) returns Err(INVALID_PARAMETER) if and only if lba is
\* not below the sum of num_blocks over all entries before the terminator;
\* otherwise block_size is the length of the first entry whose cumulative block
\* count exceeds lba.
C10_LbaCoverage ==
  pc = "lba" =>
    LET es == EntriesBeforeTerminator(fv_data) IN
    /\ (lba_result.status = "Err") <=> (lba >= BlocksUpTo(es, Len(es)))
    /\ lba < BlocksUpTo(es, Len(es)) =>
         /\ lba_result.status = "Ok"
         /\ lba_result.block_size = es[FirstCovering(es, lba)].length

\* What get_lba_info does for block maps without a half-zero entry, where
\* its arithmetic stays below 2^32.
LbaCoverageOfFullEntries ==
  (/\ pc = "lba" /\ BlockMap(fv_data) = EntriesBeforeTerminator(fv_data)
   /\ GetLbaInfoResult(fv_data, ToLeBytes(lba, 4), TRUE).status # "Panic") =>
    LET es == EntriesBeforeTerminator(fv_data) IN
    /\ (lba_result.status = "Err") <=> (lba >= BlocksUpTo(es, Len(es)))
    /\ lba < BlocksUpTo(es, Len(es)) =>
         /\ lba_result.status = "Ok"
         /\ lba_result.block_size = es[FirstCovering(es, lba)].length

\* C29: get_lba_info never overflows its 32-bit arithmetic: for every accepted
\* volume and every lba the running total of blocks, each product
\* num_blocks * length, the running offset and offset + lba * block_size stay
\* below 2^32, so the evaluation with overflow checks does not trap and the
\* offset returned is the true value, not a wrapped one.
C29_LbaNoOverflow ==
  pc = "lba" =>
    /\ lba_result.status # "Panic"
    /\ GetLbaInfoResult(fv_data, ToLeBytes(lba, 4), TRUE).status # "Panic"

RECURSIVE BytesUpTo(_, _)
\* e1.num_blocks * e1.length + ... + ek.num_blocks * ek.length
BytesUpTo(es, k) ==
  IF k = 0 THEN 0
  ELSE Val(es[k].num_blocks) * Val(es[k].length) + BytesUpTo(es, k - 1)

\* C11: when get_lba_info(lba) succeeds, the offset it returns is the byte
\* offset of the start of block lba: the bytes of all entries before the one
\* that contains lba, plus (lba minus the blocks of those entries) times the
\* containing entry's block size.  (Stated for block maps without a half-zero
\* entry, where the lookup finds the containing entry.)
C11_LbaOffset ==
  (/\ pc = "lba"
   /\ lba_result.status = "Ok"
   /\ BlockMap(fv_data) = EntriesBeforeTerminator(fv_data))
    => LET es == EntriesBeforeTerminator(fv_data)
           k  == FirstCovering(es, lba)
       IN  /\ Small(lba_result.offset)
           /\ Val(lba_result.offset) =
                BytesUpTo(es, k - 1) + (lba - BlocksUpTo(es, k - 1)) * Val(es[k].length)

----------------------------------------------------------------------------
(* ffs.rs: File.  ffs.rs addresses memory by physical address; an address  *)
(* is kept here as fv_addr plus an offset into fv_data.  The volume's      *)
(* base_address(), top_address() and attributes(), the file header layout  *)
(* (ffs/file.rs), the attribute bits and align_up are not part of the      *)
(* sources at hand and follow the design description.                      *)

FileHeaderSize == 24       \* mem::size_of::<file::Header>()
FileHeader2Size == 32      \* mem::size_of::<file::Header2>()
OffFileType == 18
OffFileAttributes == 19
OffFileSize == 20
OffFileExtendedSize == 24
LARGE_FILE == 1            \* ffs::attributes::raw::LARGE_FILE
ErasePolarityByte == 1     \* Fvb2RawAttributes::ERASE_POLARITY = 0x800: byte 1 ...
ErasePolarityBit == 8      \* ... bit 3 of the attributes field

\* a read of one byte at offset off from the start of fv_data; outside the
\* buffer the read is undefined behaviour and finds ob
MemAt(d, off, ob) == IF off >= 0 /\ off < Len(d) THEN d[off + 1] ELSE ob
MemBytes(d, off, n, ob) == [i \in 1..n |-> MemAt(d, off + i - 1, ob)]

\* FirmwareVolume::top_address() - base_address(): the fv_length of the header
FvLength(d) == Val(HdrFvLength(d))

\* ffs.rs lines 228-229: the erase byte chosen by the ERASE_POLARITY attribute
EraseByte(d) ==
  IF (HdrAttributes(d)[ErasePolarityByte + 1] \div ErasePolarityBit) % 2 = 1 THEN 255 ELSE 0

\* ffs.rs lines 91-100: From<&file::Header> for FfsFileHeader
IsLargeFile(d, off, ob) == MemAt(d, off + OffFileAttributes, ob) % 2 = LARGE_FILE

\* ffs.rs lines 118-132: File::new(containing_fv, fv_addr + off); NoFile for Err
FileNew(d, off, ob) ==
  IF off < 0 \/ FvLength(d) <= off THEN NoFile
  ELSE [off |-> off, large |-> IsLargeFile(d, off, ob)]

\* ffs.rs lines 59-70: FfsFileHeader::size, the u64 as its 8 bytes
FileSize(d, f, ob) ==
  IF f.large THEN MemBytes(d, f.off + OffFileExtendedSize, 8, ob)
  ELSE MemBytes(d, f.off + OffFileSize, 3, ob) \o <<0, 0, 0, 0, 0>>

\* ffs.rs lines 72-77: FfsFileHeader::data_offset
FileDataOffset(f) == IF f.large THEN FileHeader2Size ELSE FileHeaderSize

\* the first file taken to follow the fixed header, extension header or not
FirstFileOffsetAfterHeader(d) == HdrHeaderLength(d)

\* fv.rs lines 245-257: FirmwareVolume::first_ffs_file
FirstFileOffset(d) ==
  IF HdrExtHeaderOffset(d) # 0
  THEN HdrExtHeaderOffset(d) + Val(ExtHeaderSizeField(d))
  ELSE HdrHeaderLength(d)
FirstFfsFile(d, ob) == FileNew(d, FirstFileOffset(d), ob)

\* address_helper::align_up
AlignUp(a, n) == IF a % n = 0 THEN a ELSE a + (n - (a % n))

\* address_helper::align_up(addr, 8) on the 8 bytes of a u64: 8 bytes, then the carry out
AlignUp8(bs) ==
  IF bs[1] % 8 = 0 THEN bs \o <<0>>
  ELSE Add(bs, <<8 - (bs[1] % 8), 0, 0, 0, 0, 0, 0, 0>>)

NextNone == [status |-> "None", file |-> NoFile]
NextPanic == [status |-> "Panic", file |-> NoFile]

\* ffs.rs lines 218-245: File::next_ffs_file for the file f of the volume at address a
NextFfsFile(d, a, f, dbg, ob) ==
  LET sum     == Add(ToLeBytes(a + f.off, 8), FileSize(d, f, ob))
      aligned == AlignUp8(Low(sum, 8))
      next    == Low(aligned, 8)
      remaining_space == a + FvLength(d) - HeaderSize
      noff    == Val(next) - a
      test_size == IF HeaderSize < remaining_space THEN HeaderSize ELSE remaining_space
  IN  IF dbg /\ (sum[9] # 0 \/ aligned[9] # 0) THEN NextPanic
      ELSE IF ~LeInt(next, remaining_space) THEN NextNone
      ELSE IF \A i \in 0..(test_size - 1) : MemAt(d, noff + i, ob) = EraseByte(d)
      THEN NextNone
      ELSE IF FileNew(d, noff, ob) = NoFile THEN NextNone
      ELSE [status |-> "Some", file |-> FileNew(d, noff, ob)]

----------------------------------------------------------------------------
(* File iteration over a validated volume: fv.ffs_files() and               *)
(* FileIterator::next.  The file area holds file headers with sizes and     *)
(* attribute bits of every kind, followed by filler.                        *)

MaxFiles == 2            \* file headers laid out in the file area

Zero64 == <<0, 0, 0, 0, 0, 0, 0, 0>>

\* a file header (ffs/file.rs: Header) followed by 8 bytes: the extended_size of
\* Header2 when attrs has LARGE_FILE, the first data bytes otherwise
FileChunk(size, attrs, ext8) ==
  Rep(17, 16) \o <<170, 85, 7, attrs>> \o ToLeBytes(size, 3) \o <<248>> \o ext8

FirstChunks ==
  {FileChunk(sz, 0, Zero64) : sz \in {0, 8, 24, 25, 32, 40, 64, 16777215}}
  \cup {FileChunk(0, LARGE_FILE, e) :
          e \in {Zero64, ToLeBytes(32, 8), ToLeBytes(40, 8),
                 <<248, 255, 255, 255, 255, 255, 255, 255>>, Rep(255, 8)}}

FollowChunks ==
  {FileChunk(32, 0, Zero64), FileChunk(0, 0, Zero64), FileChunk(24, 0, Rep(255, 8)),
   FileChunk(0, LARGE_FILE, ToLeBytes(40, 8)), Rep(255, 32)}

RECURSIVE FileAreas(_)
FileAreas(n) ==
  IF n = 0 THEN {<<>>}
  ELSE {c \o rest : c \in (IF n = MaxFiles THEN FirstChunks ELSE FollowChunks),
                    rest \in FileAreas(n - 1)}

\* volumes with a one-entry block map, with or without an extension header (of
\* declared size 20, 21 or 24), either erase polarity, either filler byte
FileVolumes ==
  {Image([WellFormed EXCEPT !.bmap = <<ZeroEntry>>, !.ext = x[1], !.extoff = x[2],
                            !.extsize = ToLeBytes(ExtHeaderSize + x[3], 4),
                            !.attrs = pol,
                            !.tail = Rep(fill, x[3]) \o area \o Rep(fill, HeaderSize)]) :
     x \in {<<FALSE, 0, 0>>, <<TRUE, Auto, 0>>, <<TRUE, Auto, 1>>, <<TRUE, Auto, 4>>},
     pol \in {0, 2048}, fill \in {0, 255}, area \in FileAreas(MaxFiles)}
  \cup
  \* volumes that end where the first file would begin
  {Image([WellFormed EXCEPT !.bmap = <<ZeroEntry>>, !.ext = x[1], !.extoff = x[2],
                            !.extsize = ToLeBytes(ExtHeaderSize + x[3], 4),
                            !.tail = Rep(255, x[3])]) :
     x \in {<<FALSE, 0, 0>>, <<TRUE, Auto, 0>>, <<TRUE, Auto, 4>>}}

FvIdleValidated ==
  /\ pc = "validated"
  /\ fv_result = "Ok"
  /\ orig_result = "Ok"
  /\ corruption = NoCorruption
  /\ lba = 0
  /\ lba_result = NoLbaResult

InitFile ==
  /\ fv_data \in FileVolumes
  /\ fv_addr \in {4096, 4100}
  /\ debug_assertions \in BOOLEAN
  /\ FvNew(fv_data, fv_addr, debug_assertions) = "Ok"
  /\ FvIdleValidated
  /\ oob_byte \in {0, 255}
  /\ file_iter = NoFile
  /\ file_cur = NoFile
  /\ file_status = "idle"
  /\ attr_result = NoAttributes
  /\ SecIdle

\* fv.rs lines 260-262: fv.ffs_files() = FileIterator::new(fv.first_ffs_file())
FfsFiles ==
  /\ file_status = "idle"
  /\ file_iter' = FirstFfsFile(fv_data, oob_byte)
  /\ file_status' = "iterating"
  /\ UNCHANGED <<fvVars, oob_byte, file_cur, attr_result, secVars>>

\* ffs.rs lines 305-312: FileIterator::next
FileIteratorNext ==
  /\ file_status = "iterating"
  /\ IF file_iter = NoFile
     THEN /\ file_status' = "done"
          /\ file_cur' = NoFile
          /\ UNCHANGED file_iter
     ELSE LET r == NextFfsFile(fv_data, fv_addr, file_iter, debug_assertions, oob_byte) IN
          IF r.status = "Panic"
          THEN /\ file_status' = "panic"
               /\ UNCHANGED <<file_iter, file_cur>>
          ELSE /\ file_cur' = file_iter
               /\ file_iter' = r.file
               /\ UNCHANGED file_status
  /\ UNCHANGED <<fvVars, oob_byte, attr_result, secVars>>

NextFile == FfsFiles \/ FileIteratorNext

SpecFile == InitFile /\ [][NextFile]_vars

----------------------------------------------------------------------------
(* File::fv_file_attributes (ffs.rs lines 171-194) on the first file of a   *)
(* volume, for every value of the header's attribute byte.                  *)

DATA_ALIGNMENT == 56       \* ffs::attributes::raw::DATA_ALIGNMENT (0x38)
DATA_ALIGNMENT_2 == 2      \* ffs::attributes::raw::DATA_ALIGNMENT_2
FIXED == 4                 \* ffs::attributes::raw::FIXED
FvFileFixed == 256         \* fv::file::raw::attribute::FIXED (0x100)
AlignmentShift == 3        \* ffs.rs line 173: >> 3
AttributeBytes == 0..255   \* every u8

\* ffs.rs line 188: panic!("Invalid data_alignment!")
AttributesPanic == 0 - 2

RECURSIVE BitAnd(_, _)
BitAnd(a, b) ==
  IF a = 0 \/ b = 0 THEN 0
  ELSE (a % 2) * (b % 2) + 2 * BitAnd(a \div 2, b \div 2)

RECURSIVE BitOr(_, _)
BitOr(a, b) ==
  IF a = 0 THEN b ELSE IF b = 0 THEN a
  ELSE (IF a % 2 = 1 \/ b % 2 = 1 THEN 1 ELSE 0) + 2 * BitOr(a \div 2, b \div 2)

RECURSIVE ShiftRight(_, _)
ShiftRight(a, n) == IF n = 0 THEN a ELSE ShiftRight(a \div 2, n - 1)

\* fv_file_attributes without lines 190-192
FvFileAttributesUnfixed(attributes) ==
  LET data_alignment == ShiftRight(BitAnd(attributes, DATA_ALIGNMENT), AlignmentShift)
      extended == BitAnd(attributes, DATA_ALIGNMENT_2) = DATA_ALIGNMENT_2
  IN  CASE data_alignment = 0 /\ ~extended -> 0
        [] data_alignment = 1 /\ ~extended -> 4
        [] data_alignment = 2 /\ ~extended -> 7
        [] data_alignment = 3 /\ ~extended -> 9
        [] data_alignment = 4 /\ ~extended -> 10
        [] data_alignment = 5 /\ ~extended -> 12
        [] data_alignment = 6 /\ ~extended -> 15
        [] data_alignment = 7 /\ ~extended -> 16
        [] data_alignment \in 0..7 /\ extended -> 17 + data_alignment
        [] OTHER -> AttributesPanic

\* ffs.rs lines 171-194: File::fv_file_attributes on the attribute byte
FvFileAttributes(attributes) ==
  LET file_attributes == FvFileAttributesUnfixed(attributes) IN
  IF file_attributes = AttributesPanic THEN AttributesPanic
  ELSE IF BitAnd(attributes, FIXED) # 0 THEN BitOr(file_attributes, FvFileFixed)
  ELSE file_attributes

\* volumes whose first file has the attribute byte a
AttributeVolumes ==
  {Image([WellFormed EXCEPT !.bmap = <<ZeroEntry>>, !.ext = FALSE,
                            !.tail = FileChunk(32, a, ToLeBytes(32, 8))
                                     \o Rep(255, HeaderSize)]) : a \in AttributeBytes}

InitAttr ==
  /\ fv_data \in AttributeVolumes
  /\ fv_addr = 4096
  /\ debug_assertions \in BOOLEAN
  /\ FvNew(fv_data, fv_addr, debug_assertions) = "Ok"
  /\ FvIdleValidated
  /\ oob_byte = 0
  /\ file_iter = NoFile
  /\ file_cur = NoFile
  /\ file_status = "idle"
  /\ attr_result = NoAttributes
  /\ SecIdle

\* file.fv_file_attributes() on the file the iterator returned last
FvFileAttributesCall ==
  /\ file_cur # NoFile
  /\ attr_result = NoAttributes
  /\ LET attributes == MemAt(fv_data, file_cur.off + OffFileAttributes, oob_byte) IN
       attr_result' = [attributes |-> attributes, value |-> FvFileAttributes(attributes)]
  /\ UNCHANGED <<fvVars, oob_byte, file_iter, file_cur, file_status, secVars>>

NextAttr == FfsFiles \/ FileIteratorNext \/ FvFileAttributesCall

SpecAttr == InitAttr /\ [][NextAttr]_vars

----------------------------------------------------------------------------
(* Claims about files *)

\* C4: file iteration over an accepted volume is finite; equivalently every
\* file returned by next_ffs_file lies at a strictly greater offset than the
\* file it was computed from.
C4_FilesAdvance ==
  (file_status = "iterating" /\ file_cur # NoFile /\ file_iter # NoFile)
    => file_iter.off > file_cur.off

\* the end-of-list rule of the design: at p = align_up(off + size, 8), None if
\* less than one file header remains or the header's width of bytes at p is
\* all erase bytes, the File at p otherwise
RuleNextFile(d, f, ob) ==
  LET p == AlignUp(f.off + Val(FileSize(d, f, ob)), 8) IN
  IF p + FileHeaderSize > FvLength(d) THEN NoFile
  ELSE IF \A i \in 0..(FileHeaderSize - 1) : MemAt(d, p + i, ob) = EraseByte(d) THEN NoFile
  ELSE [off |-> p, large |-> IsLargeFile(d, p, ob)]

\* C12: for a file F of a validated volume (at an 8-byte-aligned address),
\* next_ffs_file returns None if less than one file header's width remains at
\* p = align_up(F.offset + F.size, 8) or if the bytes at p for one file
\* header's width are all the erase byte, and the File at p in every other case.
C12_EndOfList ==
  (/\ file_status = "iterating"
   /\ file_cur # NoFile
   /\ fv_addr % 8 = 0
   /\ Small(FileSize(fv_data, file_cur, oob_byte)))
    => file_iter = RuleNextFile(fv_data, file_cur, oob_byte)

\* C13: whenever next_ffs_file of a file F returns Some(G), G's offset in the
\* volume is align_up(F.offset + F.size, 8), a multiple of 8, and at least
\* F.offset + F.size.
C13_NextFileAligned ==
  (file_status = "iterating" /\ file_cur # NoFile /\ file_iter # NoFile)
    => /\ Small(FileSize(fv_data, file_cur, oob_byte))
       /\ file_iter.off = AlignUp(file_cur.off + Val(FileSize(fv_data, file_cur, oob_byte)), 8)
       /\ file_iter.off % 8 = 0
       /\ file_iter.off >= file_cur.off + Val(FileSize(fv_data, file_cur, oob_byte))

\* what is left of C13 for a volume at an 8-byte-aligned address and a file
\* size that fits the address space
NextFileAlignedInRange ==
  (/\ file_status = "iterating" /\ file_cur # NoFile /\ file_iter # NoFile
   /\ fv_addr % 8 = 0
   /\ Small(FileSize(fv_data, file_cur, oob_byte)))
    => /\ file_iter.off = AlignUp(file_cur.off + Val(FileSize(fv_data, file_cur, oob_byte)), 8)
       /\ file_iter.off % 8 = 0
       /\ file_iter.off >= file_cur.off + Val(FileSize(fv_data, file_cur, oob_byte))

\* header inside the buffer, size at least the header size, end inside the buffer
FileFits(d, f, ob) ==
  /\ f.off + FileDataOffset(f) <= Len(d)
  /\ Small(FileSize(d, f, ob))
  /\ Val(FileSize(d, f, ob)) >= FileDataOffset(f)
  /\ f.off + Val(FileSize(d, f, ob)) <= Len(d)

\* C7: every File produced by File::new or yielded by ffs_files() fits fully
\* inside the volume buffer: its header lies inside the buffer, its size is at
\* least its header size, and offset + file_size is at most the end of the volume.
C7_FilesFit ==
  /\ file_iter # NoFile => FileFits(fv_data, file_iter, oob_byte)
  /\ file_cur # NoFile => FileFits(fv_data, file_cur, oob_byte)

----------------------------------------------------------------------------
(* Sections (ffs.rs: CommonSectionHeader, Section).  A Section is a view:   *)
(* the buffer it points into (xbuf = 0: the volume buffer, xbuf = k: the    *)
(* k-th extraction buffer), its offset in that buffer, and its file.  The   *)
(* header fields are decoded from the bytes whenever they are used.         *)

CommonSectionHeaderStandardSize == 4   \* size: [u8; 3], section_type: u8
CommonSectionHeaderExtendedSize == 8   \* ... and extended_size: u32
OffSectionType == 3
OffExtendedSize == 4
CompressionSize == 5                   \* uncompressed_length: u32, compression_type: u8
GuidDefinedSize == 20                  \* guid, data_offset: u16, attributes: u16
VersionSize == 2                       \* build_number: u16
FreeformSubtypeGuidSize == 16          \* sub_type_guid
OffDataOffset == 16                    \* GuidDefined.data_offset
SectionAlign == 4                      \* next_section: align_up(next_section_address, 0x4)

COMPRESSION == 1                       \* FfsSectionRawType::encapsulated::COMPRESSION
GUID_DEFINED == 2                      \* FfsSectionRawType::encapsulated::GUID_DEFINED
DISPOSABLE == 3                        \* FfsSectionRawType::encapsulated::DISPOSABLE
VERSION == 20                          \* FfsSectionRawType::VERSION (0x14)
FREEFORM_SUBTYPE_GUID == 24            \* FfsSectionRawType::FREEFORM_SUBTYPE_GUID (0x18)
RAW == 25                              \* FfsSectionRawType::RAW (0x19)

\* a length no buffer of the model reaches: stands for every len of
\* slice::from_raw_parts (ffs.rs:451) that is 2^24 or more, a wrapped
\* subtraction included
TooLong == 16777216

\* extraction buffers live on the heap, each at an 8-byte-aligned address of its own
XBufStride == 65536
XBufAddress(x) == x * XBufStride

\* the memory the views point into
Mem == [fv |-> fv_data, fa |-> fv_addr, xb |-> xbufs, ob |-> oob_byte,
        dbg |-> debug_assertions]

BufBytes(m, x) == IF x = 0 THEN m.fv ELSE m.xb[x].bytes
BufAddr(m, x) == IF x = 0 THEN m.fa ELSE XBufAddress(x)

\* the byte at offset k of the section s; outside the buffer the read finds m.ob
SecByte(m, s, k) == MemAt(BufBytes(m, s.xbuf), s.off + k, m.ob)
SecBytes(m, s, k, n) == [i \in 1..n |-> SecByte(m, s, k + i - 1)]

\* ffs.rs lines 328-341: CommonSectionHeader::new chooses the variant
SecIsExtended(m, s) == \A k \in 0..2 : SecByte(m, s, k) = 255

\* ffs.rs lines 368-373: CommonSectionHeader::header_size
SecHeaderSize(m, s) ==
  IF SecIsExtended(m, s) THEN CommonSectionHeaderExtendedSize
  ELSE CommonSectionHeaderStandardSize

\* the 24-bit size field read whatever the variant
SecSizeStandardOnly(m, s) == SecBytes(m, s, 0, 3) \o <<0>>

\* ffs.rs lines 350-359: CommonSectionHeader::section_size, the u32 as its 4 bytes
SecSize(m, s) ==
  IF SecIsExtended(m, s) THEN SecBytes(m, s, OffExtendedSize, 4)
  ELSE SecBytes(m, s, 0, 3) \o <<0>>

\* ffs.rs lines 343-348: CommonSectionHeader::section_type
SecType(m, s) == SecByte(m, s, OffSectionType)

\* ffs.rs lines 407-448: the size of the metadata block Section::new selects
SecMetaSize(t) ==
  CASE t = COMPRESSION -> CompressionSize
    [] t = GUID_DEFINED -> GuidDefinedSize
    [] t = VERSION -> VersionSize
    [] t = FREEFORM_SUBTYPE_GUID -> FreeformSubtypeGuidSize
    [] OTHER -> 0

\* ffs.rs lines 406-448: the SectionMetaData variant Section::new selects
SecMetaKind(t) ==
  CASE t = COMPRESSION -> "Compression"
    [] t = GUID_DEFINED -> "GuidDefined"
    [] t = VERSION -> "Version"
    [] t = FREEFORM_SUBTYPE_GUID -> "FreeformSubtypeGuid"
    [] OTHER -> "None"

\* ffs.rs lines 408-409 (417-418, ...): the metadata block is read at
\* header.base_address() + header.header_size()
SecMetaData(m, s) == [kind |-> SecMetaKind(SecType(m, s)), at |-> s.off + SecHeaderSize(m, s)]

\* ffs.rs lines 411, 420, 429, 438, 444: total_header, where the data starts
SecTotalHeader(m, s) == SecHeaderSize(m, s) + SecMetaSize(SecType(m, s))

\* ffs.rs lines 413, 422, 431, 440, 445: len = section_size - total_header;
\* an unchecked build wraps below zero to a length near 2^64
SecDataLen(m, s) ==
  IF LtInt(SecSize(m, s), SecTotalHeader(m, s)) THEN TooLong
  ELSE IF Small(SecSize(m, s)) THEN Val(SecSize(m, s)) - SecTotalHeader(m, s)
  ELSE TooLong

\* Section::section_data()[k]
SecData(m, s, k) == SecByte(m, s, SecTotalHeader(m, s) + k)

\* ffs.rs lines 404-454 and 465-473: Section::new / new_in_extraction_buffer for
\* the section at offset off of buffer x.  No path returns Err; the
\* subtraction of line 413 (422, ...) panics in a build with overflow checks.
SectionNew(m, f, off, x) ==
  LET s == [xbuf |-> x, off |-> off, ffs |-> f] IN
  [status |-> IF m.dbg /\ LtInt(SecSize(m, s), SecTotalHeader(m, s)) THEN "Panic" ELSE "Some",
   sec |-> s]

\* ffs.rs lines 532-535: Section::is_encapsulation
IsEncapsulationOrDisposable(m, s) == SecType(m, s) \in {COMPRESSION, GUID_DEFINED, DISPOSABLE}

IsEncapsulation(m, s) == SecType(m, s) \in {COMPRESSION, GUID_DEFINED}

\* ffs.rs lines 207-209: File::top_address, as an address capped at TooLong
FileTopAddress(m, f) ==
  IF Small(FileSize(m.fv, f, m.ob)) THEN m.fa + f.off + Val(FileSize(m.fv, f, m.ob))
  ELSE m.fa + TooLong

\* ffs.rs lines 543-565: Section::next_section
NextSection(m, s) ==
  LET base == BufAddr(m, s.xbuf)
      next == AlignUp(base + s.off + Val(SecSize(m, s)), SectionAlign)
      top  == IF s.xbuf # 0 THEN base + Len(BufBytes(m, s.xbuf))
              ELSE FileTopAddress(m, s.ffs)
  IN  IF ~Small(SecSize(m, s)) THEN [status |-> "None", sec |-> NoSection]
      ELSE IF next <= top - CommonSectionHeaderStandardSize
      THEN SectionNew(m, s.ffs, next - base, s.xbuf)
      ELSE [status |-> "None", sec |-> NoSection]

\* ffs.rs lines 248-254: File::first_ffs_section
FirstFfsSection(m, f) ==
  IF LeInt(FileSize(m.fv, f, m.ob), FileDataOffset(f))
  THEN [status |-> "None", sec |-> NoSection]
  ELSE SectionNew(m, f, f.off + FileDataOffset(f), 0)

----------------------------------------------------------------------------
(* Section images: the bytes of sections as the PI format lays them out     *)

\* a standard common header followed by the body
SectionBytes(type, body) ==
  ToLeBytes(CommonSectionHeaderStandardSize + Len(body), 3) \o <<type>> \o body

\* zero padding up to the next multiple of SectionAlign
Pad4(bs) == bs \o Rep(0, (SectionAlign - (Len(bs) % SectionAlign)) % SectionAlign)

\* the body of a GUID-defined section: GuidDefined, then the payload
GuidDefinedBody(guid, data_offset, payload) ==
  guid \o ToLeBytes(data_offset, 2) \o <<0, 0>> \o payload

\* brotli.rs lines 45-46: BROTLI_SECTION_GUID in memory order
BROTLI_SECTION_GUID ==
  <<80, 32, 83, 61, 218, 92, 208, 79, 135, 158, 15, 127, 99, 13, 90, 251>>

BrotliPrefixSize == 16     \* brotli.rs lines 56-57: data[0..8] and data[8..16]

\* the payload the extractor expects: out_size, scratch_size, compressed stream
BrotliPayload(out_size, stream) == ToLeBytes(out_size, 8) \o Zero64 \o stream

BrotliSection(data_offset, payload) ==
  SectionBytes(GUID_DEFINED, GuidDefinedBody(BROTLI_SECTION_GUID, data_offset, payload))

LeafSection(b) == SectionBytes(RAW, <<b, b, b, b>>)

----------------------------------------------------------------------------
(* The codec (BrotliDecompressStream, an external crate) is a fixed map     *)
(* from streams to decompressed bytes.  A stream is named by its first      *)
(* byte; every other stream is one the codec rejects.                       *)

StreamLeaves == 1          \* decompresses to two raw leaf sections
StreamNested == 2          \* ... to a Brotli section wrapping StreamLeaves, and a leaf
StreamZeroSize == 3        \* ... to a section header declaring size 0

Decompressed(stream) ==
  CASE stream = StreamLeaves -> LeafSection(1) \o LeafSection(2)
    [] stream = StreamNested ->
         Pad4(BrotliSection(CommonSectionHeaderStandardSize + GuidDefinedSize,
                            BrotliPayload(16, <<StreamLeaves>>)))
         \o LeafSection(3)
    [] stream = StreamZeroSize -> <<0, 0, 0, RAW, 0, 0, 0, 0>>
    [] OTHER -> <<>>

\* brotli.rs lines 64-77: out_data = vec![0u8; out_size], BrotliDecompressStream
\* into it; success only if the whole output fits the buffer
BrotliDecompressStream(has_stream, stream, out_size) ==
  LET out == Decompressed(stream) IN
  IF has_stream /\ out # <<>> /\ Len(out) <= out_size
  THEN [ok |-> TRUE, out |-> out \o Rep(0, out_size - Len(out))]
  ELSE [ok |-> FALSE, out |-> <<>>]

----------------------------------------------------------------------------
(* Extractors and the traversal iterator                                    *)

MaxCollect == 8            \* next() calls after which an eager collect() counts as endless

RECURSIVE Reverse(_)
Reverse(q) == IF q = <<>> THEN <<>> ELSE Append(Reverse(Tail(q)), Head(q))

RECURSIVE PushFrontEach(_, _)
\* VecDeque::push_front of each element of q in turn
PushFrontEach(q, pending) ==
  IF q = <<>> THEN pending ELSE PushFrontEach(Tail(q), <<Head(q)>> \o pending)

\* the extracted sections pushed without .rev()
\* the extracted sections thrown away
QueueDiscarded(extracted, pending) == pending

QueueUnreversed(extracted, pending) == PushFrontEach(extracted, pending)

\* ffs.rs lines 626-628: for section in extracted_sections.into_iter().rev()
\*                         { pending_encapsulated_sections.push_front(section) }
QueueExtracted(extracted, pending) == PushFrontEach(Reverse(extracted), pending)

Extracted(status, kids, xb) == [status |-> status, kids |-> kids, xb |-> xb]

\* ffs.rs lines 574-579: NullExtractor::extract
NullExtract(m, s) == Extracted("Ok", <<>>, m.xb)

\* ffs.rs lines 315-318: a SectionExtractor may return any Vec<Section>; this
\* one answers every section it is given with that encapsulation section again
RewrapExtract(m, s) == Extracted("Ok", <<s>>, m.xb)

\* brotli.rs line 96: out_data goes out of scope, the buffer is freed
Dropped(out_data) == [bytes |-> out_data, live |-> FALSE]

\* brotli.rs lines 81-82: Box::into_raw(out_data.into_boxed_slice()), the
\* buffer is leaked and stays allocated
Leaked(out_data) == [bytes |-> out_data, live |-> TRUE]

\* the buffer buf together with the section whose payload it was allocated
\* for (brotli.rs line 66: vec![0u8; out_size] inside extract(section))
AllocatedFor(buf, s) == [bytes |-> buf.bytes, live |-> buf.live, from |-> s]

RECURSIVE BrotliExtract(_, _, _)
RECURSIVE IteratorNext(_, _, _, _)
RECURSIVE Collect(_, _, _)

\* brotli.rs lines 51-97: BrotliSectionExtractor::extract.  The slices of lines
\* 56-57 panic on a payload below 16 bytes.  An out_size of 2^24 or more is
\* taken to fail in the allocator (no image of the model declares one).
BrotliExtract(m, s, fuel) ==
  IF SecType(m, s) # GUID_DEFINED THEN Extracted("Ok", <<>>, m.xb)
  ELSE IF SecBytes(m, s, SecHeaderSize(m, s), 16) # BROTLI_SECTION_GUID
  THEN Extracted("Ok", <<>>, m.xb)
  ELSE IF SecDataLen(m, s) < BrotliPrefixSize THEN Extracted("Panic", <<>>, m.xb)
  ELSE LET out_size == [i \in 1..8 |-> SecData(m, s, i - 1)]
           r == BrotliDecompressStream(SecDataLen(m, s) > BrotliPrefixSize,
                                       SecData(m, s, BrotliPrefixSize), Val(out_size))
           m2 == [m EXCEPT !.xb = Append(m.xb, AllocatedFor(Leaked(r.out), s))]
           first == SectionNew(m2, s.ffs, 0, Len(m2.xb))
       IN  IF ~Small(out_size) THEN Extracted("Panic", <<>>, m.xb)
           ELSE IF ~r.ok
           THEN Extracted("Ok", <<>>,
                          Append(m.xb, AllocatedFor(Dropped(Rep(0, Val(out_size))), s)))
           ELSE IF first.status = "Panic" THEN Extracted("Panic", <<>>, m2.xb)
           ELSE Collect(m2, [next |-> first.sec, pending |-> <<>>], fuel)

\* SectionExtractor::extract of the extractor ex
Extract(ex, m, s, fuel) ==
  IF ex = "null" THEN NullExtract(m, s)
  ELSE IF ex = "rewrap" THEN RewrapExtract(m, s)
  ELSE BrotliExtract(m, s, fuel)

\* an iterator that starts over at the first section of the file once it has
\* reached the end
ReturnNoneRestarting(m, it) ==
  LET r == FirstFfsSection(m, FirstFfsFile(fv_data, oob_byte)) IN
  [status |-> "None", cur |-> NoSection, src |-> "none", kids |-> <<>>, extracted |-> <<>>,
   it |-> [it EXCEPT !.next = IF r.status = "Some" THEN r.sec ELSE NoSection],
   xb |-> m.xb]

\* ffs.rs line 615: `let current = self.next_section?` with next_section None:
\* next() returns None and touches nothing
ReturnNone(m, it) ==
  [status |-> "None", cur |-> NoSection, src |-> "none", kids |-> <<>>, extracted |-> <<>>,
   it |-> it, xb |-> m.xb]

\* ffs.rs lines 610-633: FfsSectionIterator::next on the iterator it =
\* [next, pending].  status "Some": cur was yielded; "None": the end;
\* "Panic" / "ExtractPanic" / "ExtractHang": the call did not return.
\* extracted lists the sections this call handed to self.extractor.extract
\* (line 625).
IteratorNext(m, it, ex, fuel) ==
  LET fromCursor == it.pending = <<>>
      adv == NextSection(m, it.next)
      cur == IF fromCursor THEN it.next ELSE Head(it.pending)
      it1 == IF fromCursor THEN [next |-> adv.sec, pending |-> <<>>]
             ELSE [it EXCEPT !.pending = Tail(@)]
      enc == IsEncapsulation(m, cur)
      e   == IF enc THEN Extract(ex, m, cur, fuel) ELSE Extracted("Ok", <<>>, m.xb)
      stop(status, c) == [status |-> status, cur |-> c, src |-> "none", kids |-> <<>>,
                          extracted |-> <<>>, it |-> it, xb |-> m.xb]
  IN  IF fromCursor /\ it.next = NoSection THEN ReturnNone(m, it)
      ELSE IF fromCursor /\ adv.status = "Panic" THEN stop("Panic", cur)
      ELSE IF e.status # "Ok"
      THEN [stop(IF e.status = "Hang" THEN "ExtractHang" ELSE "ExtractPanic", cur)
              EXCEPT !.xb = e.xb, !.extracted = <<cur>>]
      ELSE [status |-> "Some", cur |-> cur,
            src |-> IF fromCursor THEN "cursor" ELSE "queue",
            kids |-> e.kids,
            extracted |-> IF enc THEN <<cur>> ELSE <<>>,
            it |-> [it1 EXCEPT !.pending = QueueExtracted(e.kids, @)],
            xb |-> e.xb]

\* brotli.rs line 92: FfsSectionIterator::new_with_extractor(first, self).collect()
Collect(m, it, fuel) ==
  IF fuel = 0 THEN Extracted("Hang", <<>>, m.xb)
  ELSE LET r == IteratorNext(m, it, "brotli", fuel - 1) IN
       IF r.status = "None" THEN Extracted("Ok", <<>>, r.xb)
       ELSE IF r.status = "Some"
       THEN LET rest == Collect([m EXCEPT !.xb = r.xb], r.it, fuel - 1) IN
            Extracted(rest.status, <<r.cur>> \o rest.kids, rest.xb)
       ELSE IF r.status = "Panic" THEN Extracted("Panic", <<>>, r.xb)
       ELSE Extracted(IF r.status = "ExtractHang" THEN "Hang" ELSE "Panic", <<>>, r.xb)

----------------------------------------------------------------------------
(* Section traversal of the first file of a validated volume:               *)
(* file.ffs_sections() / ffs_sections_with_extractor() and                  *)
(* FfsSectionIterator::next.                                                *)

MaxYield == 8              \* next() calls of one traversal
MaxNone == 3               \* next() calls of one traversal that return None

NotBrotliGuid == Rep(34, 16)

\* the standard data offset of a GUID-defined section: common header + GuidDefined
GuidDataOffset == CommonSectionHeaderStandardSize + GuidDefinedSize

\* section chains laid out as the data of a file: well-formed ones ...
GoodSectionAreas ==
  { LeafSection(10) \o LeafSection(11),
    Pad4(BrotliSection(GuidDataOffset, BrotliPayload(16, <<StreamLeaves>>))) \o LeafSection(12),
    Pad4(BrotliSection(GuidDataOffset, BrotliPayload(52, <<StreamNested>>))) \o LeafSection(13),
    LeafSection(14) \o Pad4(BrotliSection(GuidDataOffset, BrotliPayload(16, <<StreamLeaves>>))),
    Pad4(SectionBytes(GUID_DEFINED, GuidDefinedBody(NotBrotliGuid, GuidDataOffset, <<1, 2, 3>>)))
      \o LeafSection(15),
    Pad4(SectionBytes(COMPRESSION, <<4, 0, 0, 0, 0, 9, 9, 9, 9>>)) \o LeafSection(16),
    SectionBytes(VERSION, <<1, 0, 65, 0>>) \o SectionBytes(FREEFORM_SUBTYPE_GUID, NotBrotliGuid),
    <<255, 255, 255, RAW, 12, 0, 0, 0, 7, 7, 7, 7>> \o LeafSection(17),
    \* a GUID-defined section whose data_offset leaves room for 8 bytes of
    \* GUID-specific header before the payload
    Pad4(BrotliSection(GuidDataOffset + 8,
                       ToLeBytes(8, 8) \o BrotliPayload(16, <<StreamLeaves>>)))
      \o LeafSection(18),
    \* streams the codec rejects: unknown, or longer than the declared out_size
    Pad4(BrotliSection(GuidDataOffset, BrotliPayload(16, <<9>>))) \o LeafSection(19),
    Pad4(BrotliSection(GuidDataOffset, BrotliPayload(8, <<StreamLeaves>>))) \o LeafSection(20),
    \* encapsulation sections of both types, a disposable section, a section
    \* with a type byte that is not a section type
    Pad4(SectionBytes(COMPRESSION, <<4, 0, 0, 0, 0, 9, 9, 9, 9>>))
      \o Pad4(BrotliSection(GuidDataOffset, BrotliPayload(16, <<StreamLeaves>>)))
      \o SectionBytes(DISPOSABLE, <<5, 5, 5, 5>>) \o SectionBytes(119, <<6, 6, 6, 6>>),
    \* a section of size 9 and six more bytes: fewer than 4 bytes remain at
    \* offset 12, a header's worth remains at offset 11
    SectionBytes(RAW, <<8, 8, 8, 8, 8>>) \o <<0, 0, 4, 0, 0, RAW>>,
    \* an extraction that succeeds, then one that fails
    Pad4(BrotliSection(GuidDataOffset, BrotliPayload(16, <<StreamLeaves>>)))
      \o Pad4(BrotliSection(GuidDataOffset, BrotliPayload(16, <<9>>))) }

\* ... and malformed ones
BadSectionAreas ==
  { \* a Brotli section whose payload is shorter than the 16-byte prefix
    Pad4(BrotliSection(GuidDataOffset, <<>>)) \o LeafSection(21),
    Pad4(BrotliSection(GuidDataOffset, ToLeBytes(16, 8))) \o LeafSection(22),
    Pad4(BrotliSection(GuidDataOffset, ToLeBytes(16, 8) \o <<0, 0, 0, 0, 0, 0, 0>>))
      \o LeafSection(23),
    \* declared sizes of 0, below the header, below header + metadata, beyond the file
    <<0, 0, 0, RAW, 1, 1, 1, 1>>,
    <<3, 0, 0, RAW, 1, 1, 1, 1>>,
    <<8, 0, 0, GUID_DEFINED, 1, 1, 1, 1>> \o LeafSection(24),
    <<64, 0, 0, RAW, 1, 1, 1, 1>>,
    LeafSection(25) \o <<255, 255, 255, RAW, 4, 0, 0, 0>>,
    \* decompressed chains that are malformed: a size-0 header, zero padding
    Pad4(BrotliSection(GuidDataOffset, BrotliPayload(8, <<StreamZeroSize>>))) \o LeafSection(26),
    Pad4(BrotliSection(GuidDataOffset, BrotliPayload(20, <<StreamLeaves>>))) \o LeafSection(27) }

\* the header of a standard file of the given total size
FileHeaderBytes(size) == SubSeq(FileChunk(size, 0, Zero64), 1, FileHeaderSize)

\* volumes whose first file (at offset 64) holds the section chain; the file
\* size is the header plus the chain, or larger than what the volume holds
\* The volume has no extension header (the file starts at header_length, 64)
\* or one of declared size 21 (the file starts at 64 + 21).
SectionVolumes ==
  {Image([WellFormed EXCEPT !.bmap = <<ZeroEntry>>, !.ext = x[1], !.extoff = x[2],
                            !.extsize = ToLeBytes(ExtHeaderSize + Len(x[3]), 4),
                            !.tail = x[3] \o FileHeaderBytes(FileHeaderSize + Len(area) + extra)
                                     \o area \o Rep(255, HeaderSize)]) :
     area \in GoodSectionAreas \cup BadSectionAreas, extra \in {0, 128},
     x \in {<<FALSE, 0, <<>> >>, <<TRUE, Auto, <<0>> >>}}

InitSec ==
  /\ fv_data \in SectionVolumes
  /\ fv_addr = 4096
  /\ debug_assertions \in BOOLEAN
  /\ FvNew(fv_data, fv_addr, debug_assertions) = "Ok"
  /\ FvIdleValidated
  /\ oob_byte \in {0, 255}
  /\ file_iter = NoFile
  /\ file_cur = NoFile
  /\ file_status = "idle"
  /\ attr_result = NoAttributes
  /\ SecIdle

\* ffs.rs lines 257-268: file.ffs_sections() and ffs_sections_with_extractor(ex)
\* on the first file of the volume
FfsSections ==
  /\ sec_status = "idle"
  /\ FirstFfsFile(fv_data, oob_byte) # NoFile
  /\ \E ex \in {"null", "brotli"} : extractor' = ex
  /\ LET r == FirstFfsSection(Mem, FirstFfsFile(fv_data, oob_byte)) IN
       /\ sec_next' = IF r.status = "Some" THEN r.sec ELSE NoSection
       /\ sec_status' = IF r.status = "Panic" THEN "Panic" ELSE "iterating"
  /\ UNCHANGED <<fvVars, fileVars, xbufs, sec_pending, sec_cur, sec_log, sec_nones, trav>>

\* ffs.rs lines 610-633: FfsSectionIterator::next
SectionIteratorNext ==
  /\ sec_status \in {"iterating", "done"}
  /\ LET r == IteratorNext(Mem, [next |-> sec_next, pending |-> sec_pending],
                           extractor, MaxCollect) IN
       /\ r.status = "Some" => Len(sec_log) < MaxYield
       /\ r.status = "None" => sec_nones < MaxNone
       /\ sec_nones' = IF r.status = "None" THEN sec_nones + 1 ELSE sec_nones
       /\ xbufs' = r.xb
       /\ sec_cur' = r.cur
       /\ sec_next' = r.it.next
       /\ sec_pending' = r.it.pending
       /\ sec_status' = CASE r.status = "Some" -> "iterating"
                          [] r.status = "None" -> "done"
                          [] OTHER -> r.status
       /\ sec_log' = IF r.status = "Some"
                     THEN Append(sec_log, [sec |-> r.cur, src |-> r.src, kids |-> r.kids,
                                           extracted |-> r.extracted])
                     ELSE sec_log
  /\ UNCHANGED <<fvVars, fileVars, extractor, trav>>

NextSec == FfsSections \/ SectionIteratorNext

SpecSec == InitSec /\ [][NextSec]_vars

\* file.ffs_sections_with_extractor(ex) with an extractor that re-wraps
FfsSectionsRewrapping ==
  /\ sec_status = "idle"
  /\ FirstFfsFile(fv_data, oob_byte) # NoFile
  /\ extractor' = "rewrap"
  /\ LET r == FirstFfsSection(Mem, FirstFfsFile(fv_data, oob_byte)) IN
       /\ sec_next' = IF r.status = "Some" THEN r.sec ELSE NoSection
       /\ sec_status' = IF r.status = "Panic" THEN "Panic" ELSE "iterating"
  /\ UNCHANGED <<fvVars, fileVars, xbufs, sec_pending, sec_cur, sec_log, sec_nones, trav>>

NextRewrap == FfsSectionsRewrapping \/ SectionIteratorNext

SpecRewrap == InitSec /\ [][NextRewrap]_vars

----------------------------------------------------------------------------
(* Several callers traverse the same volume buffer at once.  Each caller    *)
(* owns its iterator (FileIterator or FfsSectionIterator with its own       *)
(* extractor) and the buffers its extractor allocates; the volume buffer    *)
(* is shared.  A step is one call of the caller's iterator.                 *)

NumTraversals == 2         \* callers

\* the iterator a caller starts with, before its first call
TraversalInit ==
  [status |-> "idle", file |-> NoFile, next |-> NoSection, pending |-> <<>>,
   xb |-> <<>>, out |-> <<>>]

\* the memory a caller's sections point into: the shared volume, its own buffers
TraversalMem(sh, st) == [fv |-> sh.fv, fa |-> sh.fa, xb |-> st.xb, ob |-> sh.ob, dbg |-> sh.dbg]

\* fv.ffs_files() (fv.rs lines 260-262), or file.ffs_sections() /
\* ffs_sections_with_extractor() (ffs.rs lines 257-264) on the first file
TraversalStart(sh, kind, st) ==
  LET f == FirstFfsFile(sh.fv, sh.ob)
      r == FirstFfsSection(TraversalMem(sh, st), f)
  IN  IF kind = "files" THEN [st EXCEPT !.status = "iterating", !.file = f]
      ELSE IF f = NoFile THEN [st EXCEPT !.status = "done"]
      ELSE IF r.status = "Panic" THEN [st EXCEPT !.status = "Panic"]
      ELSE [st EXCEPT !.status = "iterating", !.next = r.sec]

\* FileIterator::next (ffs.rs lines 305-312)
TraversalNextFile(sh, st) ==
  LET r == NextFfsFile(sh.fv, sh.fa, st.file, sh.dbg, sh.ob) IN
  IF st.file = NoFile THEN [st EXCEPT !.status = "done"]
  ELSE IF r.status = "Panic" THEN [st EXCEPT !.status = "Panic"]
  ELSE [st EXCEPT !.file = r.file, !.out = Append(@, st.file)]

\* FfsSectionIterator::next (ffs.rs lines 610-633)
TraversalNextSection(sh, ex, st) ==
  LET r == IteratorNext(TraversalMem(sh, st), [next |-> st.next, pending |-> st.pending],
                        ex, MaxCollect)
  IN  [st EXCEPT !.status = CASE r.status = "Some" -> "iterating"
                              [] r.status = "None" -> "done"
                              [] OTHER -> r.status,
                 !.next = r.it.next, !.pending = r.it.pending, !.xb = r.xb,
                 !.out = IF r.status = "Some" THEN Append(@, r.cur) ELSE @]

\* one call by a caller of the given kind whose iterator is st; a finished
\* iterator stays as it is
TraversalStep(sh, kind, ex, st) ==
  IF st.status = "idle" THEN TraversalStart(sh, kind, st)
  ELSE IF st.status # "iterating" THEN st
  ELSE IF kind = "files" THEN TraversalNextFile(sh, st)
  ELSE TraversalNextSection(sh, ex, st)

\* all callers working on the iterator of the first caller
SharedIterator(tr, t) == tr[1].it

\* the iterator of caller t: each caller has its own (ffs.rs lines 295-297, 582-586)
OwnIterator(tr, t) == tr[t].it

\* what the callers share (fv.rs line 85: fv_data: &'a [u8])
Shared == [fv |-> fv_data, fa |-> fv_addr, ob |-> oob_byte, dbg |-> debug_assertions]

\* a caller: what it traverses, with which extractor, the calls it has
\* made, and its iterator
Caller(kind, ex) == [kind |-> kind, ex |-> ex, calls |-> 0, it |-> TraversalInit]

Callers == {Caller("files", "none"), Caller("sections", "null"), Caller("sections", "brotli")}

ConcurrentAreas ==
  { LeafSection(10) \o LeafSection(11),
    Pad4(BrotliSection(GuidDataOffset, BrotliPayload(16, <<StreamLeaves>>))) \o LeafSection(12),
    Pad4(BrotliSection(GuidDataOffset, BrotliPayload(52, <<StreamNested>>))) \o LeafSection(13),
    Pad4(BrotliSection(GuidDataOffset, ToLeBytes(16, 8))) \o LeafSection(22),
    <<0, 0, 0, RAW, 1, 1, 1, 1>>,
    Pad4(BrotliSection(GuidDataOffset, BrotliPayload(8, <<StreamZeroSize>>))) \o LeafSection(26) }

\* volumes with two files, the first holding the section chain
ConcurrentVolumes ==
  {Image([WellFormed EXCEPT !.bmap = <<ZeroEntry>>, !.ext = FALSE,
                            !.tail = FileHeaderBytes(FileHeaderSize + Len(area))
                                     \o area \o Rep(255, AlignUp(Len(area), 8) - Len(area))
                                     \o FileChunk(32, 0, Zero64)
                                     \o Rep(255, HeaderSize)]) :
     area \in ConcurrentAreas}

InitConc ==
  /\ fv_data \in ConcurrentVolumes
  /\ fv_addr = 4096
  /\ debug_assertions \in BOOLEAN
  /\ FvNew(fv_data, fv_addr, debug_assertions) = "Ok"
  /\ FvIdleValidated
  /\ oob_byte = 0
  /\ file_iter = NoFile
  /\ file_cur = NoFile
  /\ file_status = "idle"
  /\ attr_result = NoAttributes
  /\ xbufs = <<>>
  /\ extractor = "null"
  /\ sec_next = NoSection
  /\ sec_pending = <<>>
  /\ sec_cur = NoSection
  /\ sec_log = <<>>
  /\ sec_status = "idle"
  /\ sec_nones = 0
  /\ trav \in [1..NumTraversals -> Callers]

\* caller t makes its next call
TraversalCall(t) ==
  /\ trav[t].calls <= MaxYield
  /\ trav[t].calls > 0 => trav[t].it.status = "iterating"
  /\ trav' = [trav EXCEPT ![t].calls = @ + 1,
                          ![t].it = TraversalStep(Shared, trav[t].kind, trav[t].ex,
                                                  OwnIterator(trav, t))]
  /\ UNCHANGED <<fvVars, fileVars, xbufs, extractor, sec_next, sec_pending, sec_cur,
                 sec_log, sec_status, sec_nones>>

NextConc == \E t \in 1..NumTraversals : TraversalCall(t)

SpecConc == InitConc /\ [][NextConc]_vars

----------------------------------------------------------------------------
(* Claims about sections and their traversal *)

BadOrder == 0 - 1

RECURSIVE SubtreeEnd(_, _)
RECURSIVE DrainKids(_, _, _, _)

\* the yields after position last are, one after the other, the subtrees of
\* kids[j], kids[j + 1], ...: the position of the last of them (the end of the
\* log if it ends first), or BadOrder if some yield is out of place
DrainKids(log, last, kids, j) ==
  IF j > Len(kids) \/ last = Len(log) THEN last
  ELSE IF log[last + 1].sec # kids[j] \/ log[last + 1].src # "queue" THEN BadOrder
  ELSE LET e == SubtreeEnd(log, last + 1) IN
       IF e = BadOrder THEN BadOrder ELSE DrainKids(log, e, kids, j + 1)

\* the position of the last yield that belongs to the section yielded at q
SubtreeEnd(log, q) == DrainKids(log, q, log[q].kids, 1)

\* C5: traversal with an extractor is pre-order depth-first.  After next()
\* yields E with extracted children c1..ck, the yields that follow are c1 and
\* its extracted descendants, then c2 and its descendants, ... in the
\* extractor's order, and a section of the physical chain is yielded only
\* when every extracted descendant of the previous physical section has been.
C5_PreOrder ==
  /\ \A q \in 1..Len(sec_log) : SubtreeEnd(sec_log, q) # BadOrder
  /\ sec_log # <<>> => sec_log[1].src = "cursor"
  /\ \A q \in 2..Len(sec_log) :
       sec_log[q].src = "cursor" =>
         \E p \in 1..(q - 1) :
           /\ sec_log[p].src = "cursor"
           /\ SubtreeEnd(sec_log, p) = q - 1
           /\ \A r \in (p + 1)..(q - 1) : sec_log[r].src = "queue"

\* an encapsulation with two or more children, one of them expanded in turn,
\* all drained, and the physical chain resumed after them
C5_Witness ==
  \E q \in 1..Len(sec_log) :
    /\ Len(sec_log[q].kids) >= 2
    /\ \E r \in (q + 1)..Len(sec_log) :
         sec_log[r].src = "queue" /\ sec_log[r].kids # <<>>
    /\ SubtreeEnd(sec_log, q) < Len(sec_log)
    /\ sec_log[Len(sec_log)].src = "cursor"

\* the offset of the section s in its container: the file's data, or the
\* extraction buffer
ContainerOffset(s) ==
  IF s.xbuf # 0 THEN s.off ELSE s.off - (s.ffs.off + FileDataOffset(s.ffs))

\* C14: whenever next_section of a section S returns Some(T), T's offset in
\* the containing buffer (file data or extraction buffer) is
\* align_up(S.offset + S.size, 4), a multiple of 4, and at least S.offset + S.size.
C14_NextSectionAligned ==
  (sec_cur # NoSection /\ NextSection(Mem, sec_cur).status = "Some")
    => LET t == NextSection(Mem, sec_cur).sec
           e == ContainerOffset(sec_cur) + Val(SecSize(Mem, sec_cur))
       IN  /\ ContainerOffset(t) = AlignUp(e, SectionAlign)
           /\ ContainerOffset(t) % SectionAlign = 0
           /\ ContainerOffset(t) >= e

\* what is left of C14 when the container starts at a 4-byte-aligned address
NextSectionAlignedInAlignedContainer ==
  (/\ sec_cur # NoSection /\ NextSection(Mem, sec_cur).status = "Some"
   /\ (BufAddr(Mem, sec_cur.xbuf) + sec_cur.off - ContainerOffset(sec_cur)) % SectionAlign = 0)
    => LET t == NextSection(Mem, sec_cur).sec
           e == ContainerOffset(sec_cur) + Val(SecSize(Mem, sec_cur))
       IN  /\ ContainerOffset(t) = AlignUp(e, SectionAlign)
           /\ ContainerOffset(t) % SectionAlign = 0
           /\ ContainerOffset(t) >= e

\* with the no-op extractor nothing is extracted: the queue stays empty, no
\* buffer is produced, every yield comes from the physical chain of the file
NullExtractorOpaque ==
  extractor = "null" =>
    /\ sec_pending = <<>>
    /\ xbufs = <<>>
    /\ \A i \in 1..Len(sec_log) :
         /\ sec_log[i].src = "cursor"
         /\ sec_log[i].kids = <<>>
         /\ sec_log[i].sec.xbuf = 0

\* C15: with the default no-op extractor the iteration yields exactly the
\* physical chain of sections of the file, in offset order, each once;
\* encapsulation sections are yielded as opaque leaves, no child section is
\* yielded, and the pending queue is empty in every state.
C15_NullExtractorChain ==
  /\ NullExtractorOpaque
  /\ extractor = "null" =>
       \A i, j \in 1..Len(sec_log) : i < j => sec_log[i].sec.off < sec_log[j].sec.off

\* where the container of the section s ends, as an offset in its buffer
ContainerTop(m, s) ==
  IF s.xbuf # 0 THEN Len(BufBytes(m, s.xbuf))
  ELSE IF FileTopAddress(m, s.ffs) - m.fa < Len(m.fv) THEN FileTopAddress(m, s.ffs) - m.fa
  ELSE Len(m.fv)

\* header, metadata and content of s inside the container, no underflow
SectionFits(m, s) ==
  /\ s.off + SecTotalHeader(m, s) <= ContainerTop(m, s)
  /\ Small(SecSize(m, s))
  /\ Val(SecSize(m, s)) >= SecTotalHeader(m, s)
  /\ s.off + Val(SecSize(m, s)) <= ContainerTop(m, s)

\* C6: every Section produced by Section::new or yielded by the iteration
\* lies inside its container with a size of at least header plus metadata,
\* and a header that violates this gives an error, not a Section or a panic.
C6_SectionsInside ==
  /\ sec_status # "Panic"
  /\ sec_cur # NoSection => SectionFits(Mem, sec_cur)
  /\ sec_next # NoSection => SectionFits(Mem, sec_next)
  /\ \A i \in 1..Len(sec_pending) : SectionFits(Mem, sec_pending[i])

\* GuidDefined.data_offset of the section s
DeclaredDataOffset(m, s) == Val(SecBytes(m, s, SecHeaderSize(m, s) + OffDataOffset, 2))

\* C8: the content of a GUID-defined section that lies inside its container
\* begins at the data_offset its metadata declares.
C8_DataAtDeclaredOffset ==
  (/\ sec_cur # NoSection
   /\ SecType(Mem, sec_cur) = GUID_DEFINED
   /\ SectionFits(Mem, sec_cur)
   /\ DeclaredDataOffset(Mem, sec_cur) >= SecTotalHeader(Mem, sec_cur)
   /\ DeclaredDataOffset(Mem, sec_cur) <= Val(SecSize(Mem, sec_cur)))
    => SecTotalHeader(Mem, sec_cur) = DeclaredDataOffset(Mem, sec_cur)

\* C9: extract of the Brotli extractor always returns: it neither panics nor
\* runs forever, whatever the section.
C9_ExtractTotal == sec_status \notin {"ExtractPanic", "ExtractHang"}

----------------------------------------------------------------------------
(* Claims about file attributes *)

\* PI table of alignment exponents: code c without DATA_ALIGNMENT_2
AlignmentTable == <<0, 4, 7, 9, 10, 12, 15, 16>>

\* C16: fv_file_attributes never panics; the 3-bit code c (bits 3..5) and the
\* DATA_ALIGNMENT_2 bit (bit 1) select one alignment value, AlignmentTable[c]
\* without the bit and 17 + c with it, and FIXED (0x100) is set in the result
\* if and only if the raw FIXED bit (bit 2) is set.
C16_AttributesTotal ==
  attr_result # NoAttributes =>
    LET a == attr_result.attributes
        c == (a \div 8) % 8
        alignment == IF (a \div 2) % 2 = 1 THEN 17 + c ELSE AlignmentTable[c + 1]
    IN  /\ attr_result.value # AttributesPanic
        /\ attr_result.value = alignment + (IF (a \div 4) % 2 = 1 THEN 256 ELSE 0)

\* fv_file_attributes has run on a file with alignment code 7, the
\* DATA_ALIGNMENT_2 bit and the FIXED bit
C16_Witness ==
  /\ attr_result # NoAttributes
  /\ (attr_result.attributes \div 2) % 32 = 31
  /\ attr_result.value = 24 + 256

----------------------------------------------------------------------------
(* Claims about extraction buffers *)

\* the buffer the section s points into is allocated
BufferLive(s) == s.xbuf = 0 \/ (s.xbuf \in 1..Len(xbufs) /\ xbufs[s.xbuf].live)

\* C17: every Section derived from a decompressed buffer stays valid for the
\* whole scan: in every state, the buffer of every section yielded so far, of
\* every section an extraction returned, and of every section pending in the
\* queue is still allocated.
C17_BuffersOutliveSections ==
  /\ \A i \in 1..Len(sec_log) :
       /\ BufferLive(sec_log[i].sec)
       /\ \A j \in 1..Len(sec_log[i].kids) : BufferLive(sec_log[i].kids[j])
  /\ \A i \in 1..Len(sec_pending) : BufferLive(sec_pending[i])
  /\ sec_next # NoSection => BufferLive(sec_next)

\* a finished scan that yielded sections of a decompressed buffer, and in
\* which the output buffer of a failed decompression has been freed
C17_Witness ==
  /\ sec_status = "done"
  /\ \E i \in 1..Len(sec_log) : sec_log[i].sec.xbuf # 0
  /\ \E k \in 1..Len(xbufs) : ~xbufs[k].live

----------------------------------------------------------------------------
(* Claims about concurrent traversals *)

RECURSIVE Alone(_, _, _)
\* the iterator of caller c after n calls made with no other caller around
Alone(sh, c, n) ==
  IF n = 0 THEN TraversalInit
  ELSE TraversalStep(sh, c.kind, c.ex, Alone(sh, c, n - 1))

\* every caller's iterator, and with it everything it has yielded, is what
\* the same number of calls gives when the caller runs alone
SameAsAlone ==
  \A t \in DOMAIN trav :
    trav[t].it = Alone(Shared, trav[t], trav[t].calls)

----------------------------------------------------------------------------
(* Claims about the calls of the extractor *)

\* the type byte says compression or GUID-defined
EncapsulationType(s) == SecType(Mem, s) \in {COMPRESSION, GUID_DEFINED}

\* C20: during a traversal, each next() call that yields a compression or
\* GUID-defined section hands exactly that section to extractor.extract, once;
\* a call that yields any other section (a leaf type, a disposable section, an
\* unrecognized type byte) does not call extract, and a call that does not
\* return from extract handed it an encapsulation section.
C20_ExtractOncePerEncapsulation ==
  /\ \A q \in 1..Len(sec_log) :
       sec_log[q].extracted =
         IF EncapsulationType(sec_log[q].sec) THEN <<sec_log[q].sec>> ELSE <<>>
  /\ sec_status \in {"ExtractPanic", "ExtractHang"} => EncapsulationType(sec_cur)

\* one traversal has yielded a compression section, a GUID-defined section
\* with its extracted children, a disposable section and a section with an
\* unrecognized type byte; extract was called for the first two only
C20_Witness ==
  /\ extractor = "brotli"
  /\ \E a, b, c, d \in 1..Len(sec_log) :
       /\ SecType(Mem, sec_log[a].sec) = COMPRESSION /\ Len(sec_log[a].extracted) = 1
       /\ SecType(Mem, sec_log[b].sec) = GUID_DEFINED /\ Len(sec_log[b].extracted) = 1
       /\ sec_log[b].kids # <<>>
       /\ SecType(Mem, sec_log[c].sec) = DISPOSABLE /\ sec_log[c].extracted = <<>>
       /\ SecType(Mem, sec_log[d].sec) \notin {COMPRESSION, GUID_DEFINED, DISPOSABLE, VERSION,
                                               FREEFORM_SUBTYPE_GUID, RAW}
       /\ sec_log[d].extracted = <<>>

----------------------------------------------------------------------------
(* Claims about an extractor that re-wraps its output *)

\* the first yield of an encapsulation section, 0 if there is none yet
FirstEncapsulation ==
  IF \E q \in 1..Len(sec_log) : EncapsulationType(sec_log[q].sec)
  THEN CHOOSE q \in 1..Len(sec_log) :
         /\ EncapsulationType(sec_log[q].sec)
         /\ \A p \in 1..(q - 1) : ~EncapsulationType(sec_log[p].sec)
  ELSE 0

\* C21: with an extractor that answers every encapsulation section with a list
\* holding an encapsulation section, once the first encapsulation section has
\* been yielded next() never returns None: every later call yields a section
\* from the queue, the queue is never empty, and the physical cursor stays
\* where it was when that section was taken, so nothing after it is visited.
C21_RewrapNeverEnds ==
  (extractor = "rewrap" /\ FirstEncapsulation # 0) =>
    /\ sec_status = "iterating"
    /\ sec_pending # <<>>
    /\ EncapsulationType(Head(sec_pending))
    /\ \A r \in (FirstEncapsulation + 1)..Len(sec_log) : sec_log[r].src = "queue"
    /\ sec_log[FirstEncapsulation].src = "cursor"
    /\ sec_next = NextSection(Mem, sec_log[FirstEncapsulation].sec).sec

\* MaxYield sections yielded, the last of them re-wrapped ones, while a leaf
\* that follows the encapsulation section in the file is still waiting
C21_Witness ==
  /\ extractor = "rewrap"
  /\ Len(sec_log) = MaxYield
  /\ FirstEncapsulation # 0
  /\ FirstEncapsulation + 3 <= Len(sec_log)
  /\ sec_next # NoSection
  /\ ~EncapsulationType(sec_next)

----------------------------------------------------------------------------
(* Claims about the bound of next_section *)

\* the length of the container of s: its extraction buffer, or the data of
\* its file
ContainerLen(m, s) ==
  IF s.xbuf # 0 THEN Len(BufBytes(m, s.xbuf))
  ELSE Val(FileSize(m.fv, s.ffs, m.ob)) - FileDataOffset(s.ffs)

\* next_section of s: None where fewer than 4 bytes remain at
\* align_up(offset + size, 4) in the container of s; a section it returns has
\* the file and the extraction buffer of s
NextSectionBound(m, s) ==
  LET r == NextSection(m, s)
      p == AlignUp(ContainerOffset(s) + Val(SecSize(m, s)), SectionAlign)
  IN  /\ p + CommonSectionHeaderStandardSize > ContainerLen(m, s) => r.status = "None"
      /\ r.status = "Some" => (r.sec.ffs = s.ffs /\ r.sec.xbuf = s.xbuf)

\* the sections the traversal has taken from the physical chain of a file or
\* an extraction buffer whose sizes are readable
Bounded(m, s) == Small(SecSize(m, s)) /\ Small(FileSize(m.fv, s.ffs, m.ob))

\* C22: next_section checks against the end of the extraction buffer for a
\* section in one and against the end of the containing file otherwise,
\* returns None when fewer than 4 bytes remain at align_up(offset + size, 4),
\* and every section it returns carries the containing file and extraction
\* buffer of the section it was computed from.
C22_NextSectionBound ==
  \A q \in 1..Len(sec_log) :
    Bounded(Mem, sec_log[q].sec) => NextSectionBound(Mem, sec_log[q].sec)

\* what is left of C22 when the container starts at a 4-byte-aligned address
NextSectionBoundInAlignedContainer ==
  \A q \in 1..Len(sec_log) :
    (/\ Bounded(Mem, sec_log[q].sec)
     /\ (BufAddr(Mem, sec_log[q].sec.xbuf) + sec_log[q].sec.off
           - ContainerOffset(sec_log[q].sec)) % SectionAlign = 0)
      => NextSectionBound(Mem, sec_log[q].sec)

----------------------------------------------------------------------------
(* Claims about section headers and metadata *)

\* the metadata variant and its size for each type byte, as the claim C23
\* lists them
MetaDataTable(t) ==
  IF t = 1 THEN [kind |-> "Compression", size |-> 5]
  ELSE IF t = 2 THEN [kind |-> "GuidDefined", size |-> 20]
  ELSE IF t = 20 THEN [kind |-> "Version", size |-> 2]
  ELSE IF t = 24 THEN [kind |-> "FreeformSubtypeGuid", size |-> 16]
  ELSE [kind |-> "None", size |-> 0]

\* the sections the traversal holds: yielded, current, next, queued
SectionsSeen ==
  {sec_log[q].sec : q \in 1..Len(sec_log)} \cup {sec_pending[q] : q \in 1..Len(sec_pending)}
    \cup ({sec_cur, sec_next} \ {NoSection})

MetaDataAndContent(m, s) ==
  LET t == SecType(m, s)
      h == IF SecBytes(m, s, 0, 3) = <<255, 255, 255>> THEN 8 ELSE 4
  IN  /\ SecMetaData(m, s).kind = MetaDataTable(t).kind
      /\ SecMetaData(m, s).at = s.off + h
      /\ (t # GUID_DEFINED /\ Small(SecSize(m, s))) =>
           /\ SecTotalHeader(m, s) = h + MetaDataTable(t).size
           /\ SecDataLen(m, s) = Val(SecSize(m, s)) - (h + MetaDataTable(t).size)

\* C23: the metadata of a section is chosen by the type byte alone, one of
\* Compression, GuidDefined, Version, FreeformSubtypeGuid and None; it starts
\* right after the common header; for the variants other than GuidDefined the
\* content runs from the end of header plus metadata to section start + size.
C23_MetaDataByType == \A s \in SectionsSeen : MetaDataAndContent(Mem, s)

\* what is left of C23 for sections whose size holds header and metadata
MetaDataByTypeOfSizedSections ==
  \A s \in SectionsSeen :
    ~LtInt(SecSize(Mem, s), SecTotalHeader(Mem, s)) => MetaDataAndContent(Mem, s)


\* byte k of the header of s, read from its buffer
HeaderByte(s, k) == MemAt(BufBytes(Mem, s.xbuf), s.off + k, oob_byte)

AllOnes(s) == HeaderByte(s, 0) = 255 /\ HeaderByte(s, 1) = 255 /\ HeaderByte(s, 2) = 255

\* C24: a section uses the extended header, with its 4-byte size field and
\* its larger header size, exactly when the three bytes of the standard size
\* field are all 0xFF; otherwise section_size is the 24-bit little-endian
\* value of those bytes; the type byte is at the same place in both variants.
C24_SentinelSelectsVariant ==
  \A s \in SectionsSeen :
    /\ SecIsExtended(Mem, s) <=> AllOnes(s)
    /\ SecHeaderSize(Mem, s) = IF AllOnes(s) THEN 8 ELSE 4
    /\ SecSize(Mem, s) =
         IF AllOnes(s)
         THEN <<HeaderByte(s, 4), HeaderByte(s, 5), HeaderByte(s, 6), HeaderByte(s, 7)>>
         ELSE <<HeaderByte(s, 0), HeaderByte(s, 1), HeaderByte(s, 2), 0>>
    /\ SecType(Mem, s) = HeaderByte(s, 3)

\* the traversal has yielded a section with the extended header and a
\* section with the standard one
C24_Witness ==
  \E a, b \in 1..Len(sec_log) :
    /\ AllOnes(sec_log[a].sec)
    /\ Val(SecSize(Mem, sec_log[a].sec)) = 12
    /\ ~AllOnes(sec_log[b].sec)
    /\ Val(SecSize(Mem, sec_log[b].sec)) = 8

----------------------------------------------------------------------------
(* Claims about file headers *)

\* ffs.rs lines 139-141: File::file_data_size, size - data_offset in u64: a
\* build with overflow checks panics below zero, one without them wraps
FileDataSize(d, f, dbg, ob) ==
  IF dbg /\ LtInt(FileSize(d, f, ob), FileDataOffset(f))
  THEN [status |-> "Panic", size |-> Zero64]
  ELSE [status |-> "Ok", size |-> Sub(FileSize(d, f, ob), ToLeBytes(FileDataOffset(f), 8))]

\* ffs.rs lines 212-215: File::file_data, the slice [from, from + len) of the
\* volume, len as the 8 bytes of the usize
FileData(d, f, dbg, ob) ==
  [status |-> FileDataSize(d, f, dbg, ob).status,
   from |-> f.off + FileDataOffset(f),
   len |-> FileDataSize(d, f, dbg, ob).size]

\* byte k of the header of the file f, read from the volume
FileHeaderByte(f, k) == MemAt(fv_data, f.off + k, oob_byte)

HeaderVariantAndData(f) ==
  LET large == FileHeaderByte(f, 19) % 2 = 1
      h == IF large THEN 32 ELSE 24
      size == FileSize(fv_data, f, oob_byte)
      data == FileData(fv_data, f, debug_assertions, oob_byte)
  IN  /\ f.large <=> large
      /\ FileDataOffset(f) = h
      /\ ~large => size = <<FileHeaderByte(f, 20), FileHeaderByte(f, 21),
                            FileHeaderByte(f, 22), 0, 0, 0, 0, 0>>
      /\ large => size = [i \in 1..8 |-> FileHeaderByte(f, 24 + i - 1)]
      /\ Small(size) =>
           /\ data.status = "Ok"
           /\ data.from = f.off + h
           /\ Small(data.len)
           /\ Val(data.len) = Val(size) - h
           /\ data.from + Val(data.len) = f.off + Val(size)

\* C25: a File uses the extended header, with its 64-bit size and data after
\* the extended header, exactly when the LARGE_FILE bit of its attribute byte
\* is set; otherwise file_size is the 24-bit little-endian size field and the
\* data starts after the 24-byte header; in both cases file_data_size is
\* file_size minus the header size and file_data is the range
\* [offset + header size, offset + file_size).
C25_FileHeaderVariant == file_cur # NoFile => HeaderVariantAndData(file_cur)

\* what is left of C25 for files whose size holds the header
HeaderVariantOfSizedFiles ==
  (file_cur # NoFile /\ ~LtInt(FileSize(fv_data, file_cur, oob_byte), FileDataOffset(file_cur)))
    => HeaderVariantAndData(file_cur)


\* where the claim C26 puts the first file, read off the header bytes
ClaimedFirstFileOffset ==
  LET extoff == fv_data[53] + 256 * fv_data[54]
      extsize == Val(MemBytes(fv_data, extoff + 16, 4, oob_byte))
      hlen == fv_data[49] + 256 * fv_data[50]
  IN  IF extoff # 0 THEN extoff + extsize ELSE hlen

\* C26: first_ffs_file parses the first file at ext_header_offset +
\* ext_header_size when the volume has an extension header and at
\* header_length otherwise, and returns None, not an error or a panic, when
\* File::new gives no File at that offset.
C26_FirstFileOffset ==
  file_status # "idle" =>
    LET f == FirstFfsFile(fv_data, oob_byte) IN
    /\ f # NoFile => f.off = ClaimedFirstFileOffset
    /\ f = NoFile <=> ClaimedFirstFileOffset >= FvLength(fv_data)

\* a volume with an extension header whose first file has been yielded from
\* the end of the extension
C26_Witness ==
  /\ file_cur # NoFile
  /\ fv_data[53] + 256 * fv_data[54] # 0
  /\ file_cur.off = ClaimedFirstFileOffset
  /\ file_cur.off > fv_data[53] + 256 * fv_data[54] + ExtHeaderSize

----------------------------------------------------------------------------
(* Claims about the expanded section tree *)

RECURSIVE TreePath(_, _)
\* the place of the section s in the expanded section tree of its file: its
\* offset in the file for a section of the file, and for a section of a
\* decompressed buffer the place of the encapsulation section the buffer was
\* decompressed from, followed by its offset in that buffer
TreePath(m, s) ==
  IF s.xbuf = 0 THEN <<s.off>>
  ELSE TreePath(m, m.xb[s.xbuf].from) \o <<s.off>>

\* no place of the tree is yielded twice
YieldedOnce ==
  \A i, j \in 1..Len(sec_log) :
    i < j => TreePath(Mem, sec_log[i].sec) # TreePath(Mem, sec_log[j].sec)

\* C27: traversing a file with the decompression extractor yields every
\* section of the expanded section tree once: no section is yielded twice and
\* the outer traversal calls extract at most once per encapsulation section,
\* also when a decompressed buffer holds a further encapsulation section.
C27_TreeYieldedOnce ==
  extractor = "brotli" =>
    /\ YieldedOnce
    /\ \A i, j \in 1..Len(sec_log) :
         (i < j /\ sec_log[i].extracted # <<>> /\ sec_log[j].extracted # <<>>)
           => sec_log[i].extracted # sec_log[j].extracted

\* what is left of C27 for files whose sections lie inside their containers
\* and whose decompressed buffers hold no further Brotli section
FlatTreeYieldedOnce ==
  (/\ extractor = "brotli"
   /\ \A q \in 1..Len(sec_log) :
        /\ SectionFits(Mem, sec_log[q].sec)
        /\ Val(SecSize(Mem, sec_log[q].sec)) > 0
        /\ sec_log[q].sec.xbuf # 0 => sec_log[q].kids = <<>>)
    => YieldedOnce

----------------------------------------------------------------------------
(* Claims about termination of the section iteration *)

\* C28: for every file of a validated volume, whatever its data holds, the
\* section iteration with the no-op extractor ends: no call panics, each
\* section next_section returns lies at a strictly greater offset than the
\* one it was computed from, so the sections yielded are fewer than the
\* volume has 4-byte units and next() then returns None.
C28_NullIterationTerminates ==
  extractor = "null" =>
    /\ sec_status # "Panic"
    /\ \A q \in 1..Len(sec_log) :
         NextSection(Mem, sec_log[q].sec).status = "Some"
           => NextSection(Mem, sec_log[q].sec).sec.off > sec_log[q].sec.off
    /\ Len(sec_log) * SectionAlign <= Len(fv_data)

\* what is left of C28 for files whose section sizes hold their headers
SizedSectionsAdvance ==
  extractor = "null" =>
    \A q \in 1..Len(sec_log) :
      (/\ ~LtInt(SecSize(Mem, sec_log[q].sec), SecTotalHeader(Mem, sec_log[q].sec))
       /\ NextSection(Mem, sec_log[q].sec).status = "Some")
        => NextSection(Mem, sec_log[q].sec).sec.off > sec_log[q].sec.off

----------------------------------------------------------------------------
(* Claims about the end of the section iteration *)

\* C30: the section iterator is fused: once next() has returned None, every
\* later next() call returns None again, leaves the cursor and the pending
\* queue as they are, and hands nothing to the extractor (no buffer is
\* allocated, nothing is yielded).
C30_Fused ==
  [][sec_nones >= 1 =>
       /\ sec_nones' = sec_nones + 1
       /\ sec_status' = "done"
       /\ sec_cur' = NoSection
       /\ sec_next' = sec_next /\ sec_next = NoSection
       /\ sec_pending' = sec_pending /\ sec_pending = <<>>
       /\ xbufs' = xbufs
       /\ sec_log' = sec_log
       /\ IteratorNext(Mem, [next |-> sec_next, pending |-> sec_pending],
                       extractor, MaxCollect).extracted = <<>>]_vars

\* next() was called again after it had returned None, at the end of a
\* traversal that yielded sections and extracted one of them
C30_Witness ==
  /\ sec_nones >= 2
  /\ \E i \in 1..Len(sec_log) : sec_log[i].extracted # <<>>
  /\ xbufs # <<>>

====
